---------------------------- MODULE Spec2Model ----------------------------
(***************************************************************************)
(* A model of derailleur, a decoder for FIT documents.                     *)
(*                                                                         *)
(*   sans/   the finite-state machine kernel: state tokens and their       *)
(*           advance methods, and the CRC helper                           *)
(*   avec/   the slice driver and the reader driver, which feed bytes to   *)
(*           the kernel and publish values to a receiver                   *)
(*                                                                         *)
(* Conventions.  A byte is a number 0..255 and a document is a sequence of *)
(* bytes.  An Option is a sequence of length 0 (None) or 1 (Some).  A      *)
(* decoded primitive wider than 16 bits does not fit a model integer, so   *)
(* every decoded field value is the sequence of its bytes, most            *)
(* significant first: from_le_bytes reverses the bytes read, from_be_bytes *)
(* keeps them.  A Result is a tuple: <<>> while nothing went wrong, else   *)
(* the error, or <<"panic", why>> when the code panics.                    *)
(***************************************************************************)
EXTENDS Integers, Sequences, FiniteSets, Bags, TLC

---------------------------------------------------------------------------
(* Helpers for sequences and bits.                                         *)

Byte == 0..255

None == <<>>

Some(x) == <<x>>

Reverse(s) == [k \in 1..Len(s) |-> s[Len(s) + 1 - k]]

\* r.get(a..b): the bytes at offsets a..b-1, when the range lies in r.
InRange(r, a, b) == a <= b /\ b <= Len(r)

Get(r, a, b) == IF InRange(r, a, b) THEN SubSeq(r, a + 1, b) ELSE <<>>

\* The ^ of two half-bytes, as a table: NibbleXor[x + 1][y + 1].
NibbleXor ==
    <<
      << 0,  1,  2,  3,  4,  5,  6,  7,  8,  9, 10, 11, 12, 13, 14, 15>>,
      << 1,  0,  3,  2,  5,  4,  7,  6,  9,  8, 11, 10, 13, 12, 15, 14>>,
      << 2,  3,  0,  1,  6,  7,  4,  5, 10, 11,  8,  9, 14, 15, 12, 13>>,
      << 3,  2,  1,  0,  7,  6,  5,  4, 11, 10,  9,  8, 15, 14, 13, 12>>,
      << 4,  5,  6,  7,  0,  1,  2,  3, 12, 13, 14, 15,  8,  9, 10, 11>>,
      << 5,  4,  7,  6,  1,  0,  3,  2, 13, 12, 15, 14,  9,  8, 11, 10>>,
      << 6,  7,  4,  5,  2,  3,  0,  1, 14, 15, 12, 13, 10, 11,  8,  9>>,
      << 7,  6,  5,  4,  3,  2,  1,  0, 15, 14, 13, 12, 11, 10,  9,  8>>,
      << 8,  9, 10, 11, 12, 13, 14, 15,  0,  1,  2,  3,  4,  5,  6,  7>>,
      << 9,  8, 11, 10, 13, 12, 15, 14,  1,  0,  3,  2,  5,  4,  7,  6>>,
      <<10, 11,  8,  9, 14, 15, 12, 13,  2,  3,  0,  1,  6,  7,  4,  5>>,
      <<11, 10,  9,  8, 15, 14, 13, 12,  3,  2,  1,  0,  7,  6,  5,  4>>,
      <<12, 13, 14, 15,  8,  9, 10, 11,  4,  5,  6,  7,  0,  1,  2,  3>>,
      <<13, 12, 15, 14,  9,  8, 11, 10,  5,  4,  7,  6,  1,  0,  3,  2>>,
      <<14, 15, 12, 13, 10, 11,  8,  9,  6,  7,  4,  5,  2,  3,  0,  1>>,
      <<15, 14, 13, 12, 11, 10,  9,  8,  7,  6,  5,  4,  3,  2,  1,  0>>
    >>

\* The ^ of two u16, half-byte by half-byte.
Xor16(a, b) ==
    NibbleXor[(a % 16) + 1][(b % 16) + 1]
    + 16 * NibbleXor[((a \div 16) % 16) + 1][((b \div 16) % 16) + 1]
    + 256 * NibbleXor[((a \div 256) % 16) + 1][((b \div 256) % 16) + 1]
    + 4096 * NibbleXor[((a \div 4096) % 16) + 1][((b \div 4096) % 16) + 1]

---------------------------------------------------------------------------
(* sans/check.rs                                                           *)

CRC_TABLE ==
    <<0, 52225, 55297, 5120, 61441, 15360, 10240, 58369,
      40961, 27648, 30720, 46081, 20480, 39937, 34817, 17408>>

\* crc_byte with the two table steps in the other order.
crc_byte_high_first(crc, b) ==
    LET LowHalf(crc2) ==
            Xor16(Xor16((crc2 \div 16) % 4096, CRC_TABLE[(crc2 % 16) + 1]),
                  CRC_TABLE[(b % 16) + 1])
    IN  LowHalf(Xor16(Xor16((crc \div 16) % 4096,
                            CRC_TABLE[(crc % 16) + 1]),
                      CRC_TABLE[((b \div 16) % 16) + 1]))

\* The two half-byte steps; the second works on the result of the first.
crc_byte(crc, b) ==
    LET HighHalf(crc2) ==
            Xor16(Xor16((crc2 \div 16) % 4096, CRC_TABLE[(crc2 % 16) + 1]),
                  CRC_TABLE[((b \div 16) % 16) + 1])
    IN  HighHalf(Xor16(Xor16((crc \div 16) % 4096,
                             CRC_TABLE[(crc % 16) + 1]),
                       CRC_TABLE[(b % 16) + 1]))

RECURSIVE FoldCrc(_, _, _)
FoldCrc(acc, r, k) ==
    IF k > Len(r) \/ acc < 0 THEN acc
    ELSE FoldCrc(crc_byte(acc, r[k]), r, k + 1)

\* A variant that hands back the complement of the folded value, as
\* checks with a final inversion do.
compute_crc_complemented(init, r) == 65535 - FoldCrc(init, r, 1)

compute_crc(init, r) == FoldCrc(init, r, 1)

---------------------------------------------------------------------------
(* sans/header.rs                                                          *)

FitSignature == <<46, 70, 73, 84>>    \* b".FIT"

\* u32::from_le_bytes of the four bytes at offsets 4..8 (as the transmute
\* of a packed struct reads it on a little-endian target).
DataSizeOf(r) == r[5] + 256 * r[6] + 65536 * r[7] + 16777216 * r[8]

RecordHeaderToken == [kind |-> "RecordHeader"]

\* A variant that looks at the header length before the signature.
DocumentHeader_advance_length_first(r) ==
    LET header_size == r[1]
        data_size == DataSizeOf(r)
        data_type == SubSeq(r, 9, 12)
    IN  IF header_size \notin {12, 14}
        THEN [err |-> <<"UnknownHeaderLength", header_size>>]
        ELSE IF data_type # FitSignature
        THEN [err |-> <<"NotFitData">>]
        ELSE [err |-> <<>>, size |-> data_size,
              successor |-> IF header_size = 14
                            THEN [kind |-> "ExtendedDocumentHeader"]
                            ELSE [kind |-> "RecordHeader"]]

DocumentHeader_advance(r) ==
    LET header_size == r[1]
        data_size == DataSizeOf(r)
        data_type == SubSeq(r, 9, 12)
    IN  IF data_type # FitSignature
        THEN [err |-> <<"NotFitData">>]
        ELSE IF header_size = 14
        THEN [err |-> <<>>, size |-> data_size,
              successor |-> [kind |-> "ExtendedDocumentHeader"]]
        ELSE IF header_size = 12
        THEN [err |-> <<>>, size |-> data_size,
              successor |-> RecordHeaderToken]
        ELSE [err |-> <<"UnknownHeaderLength", header_size>>]

ExtendedDocumentHeader_advance(state, r) == RecordHeaderToken

Bit(b, n) == (b \div (2 ^ n)) % 2 = 1

\* A variant that takes six bits for the time offset and what is left for
\* the local index.
RecordHeader_advance_wide_offset(state, r) ==
    LET b == r[1]
    IN  IF Bit(b, 7)
        THEN [err |-> <<>>, local |-> (b \div 64) % 2,
              successor |-> [kind |-> "DefinitionAlt"],
              time |-> Some(b % 64)]
        ELSE IF Bit(b, 5)
        THEN [err |-> <<"DeveloperData">>]
        ELSE IF Bit(b, 6)
        THEN [err |-> <<>>, local |-> b % 16,
              successor |-> [kind |-> "Definition"]]
        ELSE [err |-> <<>>, local |-> b % 16,
              successor |-> [kind |-> "DefinitionAlt"], time |-> None]

\* A variant that tests the developer bit before the compressed bit.
RecordHeader_advance_developer_first(state, r) ==
    LET b == r[1]
    IN  IF Bit(b, 5)
        THEN [err |-> <<"DeveloperData">>]
        ELSE IF Bit(b, 7)
        THEN [err |-> <<>>, local |-> (b \div 32) % 4,
              successor |-> [kind |-> "DefinitionAlt"],
              time |-> Some(b % 32)]
        ELSE IF Bit(b, 6)
        THEN [err |-> <<>>, local |-> b % 16,
              successor |-> [kind |-> "Definition"]]
        ELSE [err |-> <<>>, local |-> b % 16,
              successor |-> [kind |-> "DefinitionAlt"], time |-> None]

\* A variant that takes five bits of a normal header for the local index.
RecordHeader_advance_five_bits(state, r) ==
    LET b == r[1]
    IN  IF Bit(b, 7)
        THEN [err |-> <<>>, local |-> (b \div 32) % 4,
              successor |-> [kind |-> "DefinitionAlt"],
              time |-> Some(b % 32)]
        ELSE IF Bit(b, 5)
        THEN [err |-> <<"DeveloperData">>]
        ELSE IF Bit(b, 6)
        THEN [err |-> <<>>, local |-> b % 32,
              successor |-> [kind |-> "Definition"]]
        ELSE [err |-> <<>>, local |-> b % 32,
              successor |-> [kind |-> "DefinitionAlt"], time |-> None]

RecordHeader_advance(state, r) ==
    LET b == r[1]
        is_compressed == Bit(b, 7)
    IN  IF is_compressed
        THEN LET time_offset == b % 32
                 local_message == (b \div 32) % 4
             IN  [err |-> <<>>, local |-> local_message,
                  successor |-> [kind |-> "DefinitionAlt"],
                  time |-> Some(time_offset)]
        ELSE LET local_message == b % 16
                 is_developer == Bit(b, 5)
                 is_definition == Bit(b, 6)
             IN  IF is_developer
                 THEN [err |-> <<"DeveloperData">>]
                 ELSE IF is_definition
                 THEN [err |-> <<>>, local |-> local_message,
                       successor |-> [kind |-> "Definition"]]
                 ELSE [err |-> <<>>, local |-> local_message,
                       successor |-> [kind |-> "DefinitionAlt"],
                       time |-> None]

---------------------------------------------------------------------------
(* sans/definition.rs                                                      *)

\* a - b on u8: the difference, and whether it wrapped around.
WrappingSub(a, b) == (a - b + 256) % 256

Underflows(a, b) == a < b

\* A variant that goes into the loop over field descriptors whatever the
\* count is.
Definition_advance_unchecked(state, r) ==
    [kind |-> "DefinitionField", fields_remaining |-> r[5]]

Definition_advance(state, r) ==
    LET fields_remaining == r[5]
    IN  IF fields_remaining # 0
        THEN [kind |-> "DefinitionField", fields_remaining |-> fields_remaining]
        ELSE RecordHeaderToken

DefinitionField_advance(state, r) ==
    LET fields_remaining == WrappingSub(state.fields_remaining, 1)
    IN  [underflow |-> Underflows(state.fields_remaining, 1),
         successor |->
            IF fields_remaining # 0
            THEN [kind |-> "DefinitionField",
                  fields_remaining |-> fields_remaining]
            ELSE RecordHeaderToken]

\* A variant that reads the global message number as little-endian
\* whatever the architecture is.
DefinitionAlt_advance_le(state, r) ==
    [global |-> r[3] + 256 * r[4],
     successor |->
        IF r[5] # 0
        THEN [kind |-> "DefinitionFieldAlt", fields_remaining |-> r[5],
              is_little_endian |-> r[2] = 0]
        ELSE RecordHeaderToken]

\* A variant that takes the architecture byte 1 alone for big-endian.
DefinitionAlt_advance_one_is_big(state, r) ==
    [global |->
        IF r[2] # 1 THEN r[3] + 256 * r[4] ELSE 256 * r[3] + r[4],
     successor |->
        IF r[5] # 0
        THEN [kind |-> "DefinitionFieldAlt", fields_remaining |-> r[5],
              is_little_endian |-> r[2] # 1]
        ELSE RecordHeaderToken]

DefinitionAlt_advance(state, r) ==
    LET architecture == r[2]
        global_message == SubSeq(r, 3, 4)
        fields_remaining == r[5]
        is_little_endian == architecture = 0
    IN  [global |->
            IF is_little_endian
            THEN global_message[1] + 256 * global_message[2]
            ELSE 256 * global_message[1] + global_message[2],
         successor |->
            IF fields_remaining # 0
            THEN [kind |-> "DefinitionFieldAlt",
                  fields_remaining |-> fields_remaining,
                  is_little_endian |-> is_little_endian]
            ELSE RecordHeaderToken]

\* A variant that takes the code 0x0D (byte) for a type marked by zero.
AnyFieldOf_byte_zero(base_type) ==
    CASE base_type \in {0, 2} -> "U8"
      [] base_type \in {7, 10, 13} -> "U8Z"
      [] base_type = 1 -> "I8"
      [] base_type = 131 -> "I16"
      [] base_type = 132 -> "U16"
      [] base_type = 133 -> "I32"
      [] base_type = 134 -> "U32"
      [] base_type = 136 -> "F32"
      [] base_type = 137 -> "F64"
      [] base_type = 139 -> "U16Z"
      [] base_type = 140 -> "U32Z"
      [] base_type = 142 -> "I64"
      [] base_type = 143 -> "U64"
      [] base_type = 144 -> "U64Z"
      [] OTHER -> "unreachable"

\* The match on base_type: the AnyField variant, or "unreachable".
AnyFieldOf(base_type) ==
    CASE base_type = 0 -> "U8"
      [] base_type = 1 -> "I8"
      [] base_type = 2 -> "U8"
      [] base_type = 131 -> "I16"
      [] base_type = 132 -> "U16"
      [] base_type = 133 -> "I32"
      [] base_type = 134 -> "U32"
      [] base_type = 7 -> "U8Z"
      [] base_type = 136 -> "F32"
      [] base_type = 137 -> "F64"
      [] base_type = 10 -> "U8Z"
      [] base_type = 139 -> "U16Z"
      [] base_type = 140 -> "U32Z"
      [] base_type = 13 -> "U8"
      [] base_type = 142 -> "I64"
      [] base_type = 143 -> "U64"
      [] base_type = 144 -> "U64Z"
      [] OTHER -> "unreachable"

\* A variant that hands fields_remaining on as it is.
DefinitionFieldAlt_advance_keep(state, r) ==
    [underflow |-> Underflows(state.fields_remaining, 1),
     unreachable |-> AnyFieldOf(r[3]) = "unreachable",
     field |-> r[1],
     successor |->
        [kind |-> "Field", base |-> AnyFieldOf(r[3]),
         fields_remaining |-> state.fields_remaining,
         bytes_remaining |-> r[2],
         is_little_endian |-> state.is_little_endian]]

DefinitionFieldAlt_advance(state, r) ==
    LET field == r[1]
        size == r[2]
        base_type == r[3]
        variant == AnyFieldOf(base_type)
    IN  [underflow |-> Underflows(state.fields_remaining, 1),
         unreachable |-> variant = "unreachable",
         field |-> field,
         successor |->
            [kind |-> "Field", base |-> variant,
             fields_remaining |-> WrappingSub(state.fields_remaining, 1),
             bytes_remaining |-> size,
             is_little_endian |-> state.is_little_endian]]

---------------------------------------------------------------------------
(* sans/data.rs                                                            *)

\* size_of::<T::Into>() for each FieldInner.
SizeOf(base) ==
    CASE base \in {"U8", "U8Z", "I8"} -> 1
      [] base \in {"U16", "U16Z", "I16"} -> 2
      [] base \in {"U32", "U32Z", "I32", "F32"} -> 4
      [] base \in {"U64", "U64Z", "I64", "F64"} -> 8

Repeat(b, n) == [k \in 1..n |-> b]

\* Self::Into::$invalid of each field_inner! instance, most significant
\* byte first: MAX for the plain and signed types and the floats, MIN for
\* the z types.
\* A variant in which the signed types are marked by all ones, like the
\* unsigned ones.
Invalid_all_ones(base) ==
    CASE base \in {"U8Z", "U16Z", "U32Z", "U64Z"} -> Repeat(0, SizeOf(base))
      [] base = "F32" -> <<127, 127, 255, 255>>
      [] base = "F64" -> <<127, 239, 255, 255, 255, 255, 255, 255>>
      [] OTHER -> Repeat(255, SizeOf(base))

Invalid(base) ==
    CASE base \in {"U8", "U16", "U32", "U64"} -> Repeat(255, SizeOf(base))
      [] base \in {"U8Z", "U16Z", "U32Z", "U64Z"} -> Repeat(0, SizeOf(base))
      [] base \in {"I8", "I16", "I32", "I64"} ->
            <<127>> \o Repeat(255, SizeOf(base) - 1)
      [] base = "F32" -> <<127, 127, 255, 255>>
      [] base = "F64" -> <<127, 239, 255, 255, 255, 255, 255, 255>>

\* A variant that reads every value as little-endian.
FieldInner_from_le(base, r, is_le) ==
    IF Reverse(r) # Invalid(base) THEN Some(Reverse(r)) ELSE None

FieldInner_from(base, r, is_le) ==
    LET x == IF is_le THEN Reverse(r) ELSE r
    IN  IF x # Invalid(base) THEN Some(x) ELSE None

\* A variant that goes on to a definition once the last field is drained.
Field_advance_to_definition(state, r) ==
    [value |-> FieldInner_from(state.base, r, state.is_little_endian),
     underflow |-> state.bytes_remaining # SizeOf(state.base)
                    /\ Underflows(state.bytes_remaining, SizeOf(state.base)),
     successor |->
        IF state.bytes_remaining = SizeOf(state.base)
        THEN IF state.fields_remaining # 0
             THEN [kind |-> "DefinitionFieldAlt",
                   fields_remaining |-> state.fields_remaining,
                   is_little_endian |-> state.is_little_endian]
             ELSE [kind |-> "Definition"]
        ELSE [kind |-> "Field", base |-> state.base,
              fields_remaining |-> state.fields_remaining,
              bytes_remaining |->
                  WrappingSub(state.bytes_remaining, SizeOf(state.base)),
              is_little_endian |-> state.is_little_endian]]

\* A variant that counts elements, not bytes: one off bytes_remaining for
\* each call.
Field_advance_by_one(state, r) ==
    [value |-> FieldInner_from(state.base, r, state.is_little_endian),
     underflow |-> state.bytes_remaining # 1
                    /\ Underflows(state.bytes_remaining, 1),
     successor |->
        IF state.bytes_remaining = 1
        THEN IF state.fields_remaining # 0
             THEN [kind |-> "DefinitionFieldAlt",
                   fields_remaining |-> state.fields_remaining,
                   is_little_endian |-> state.is_little_endian]
             ELSE RecordHeaderToken
        ELSE [kind |-> "Field", base |-> state.base,
              fields_remaining |-> state.fields_remaining,
              bytes_remaining |-> WrappingSub(state.bytes_remaining, 1),
              is_little_endian |-> state.is_little_endian]]

\* A variant that takes the first invalid element of a z-type field for
\* the end of the field.
Field_advance_terminated(state, r) ==
    LET value == FieldInner_from(state.base, r, state.is_little_endian)
        size == SizeOf(state.base)
    IN  [value |-> value,
         underflow |-> state.bytes_remaining # size
                        /\ Underflows(state.bytes_remaining, size),
         successor |->
            IF state.bytes_remaining = size
               \/ (state.base = "U8Z" /\ value = None)
            THEN IF state.fields_remaining # 0
                 THEN [kind |-> "DefinitionFieldAlt",
                       fields_remaining |-> state.fields_remaining,
                       is_little_endian |-> state.is_little_endian]
                 ELSE RecordHeaderToken
            ELSE [kind |-> "Field", base |-> state.base,
                  fields_remaining |-> state.fields_remaining,
                  bytes_remaining |->
                      WrappingSub(state.bytes_remaining, size),
                  is_little_endian |-> state.is_little_endian]]

Field_advance(state, r) ==
    LET value == FieldInner_from(state.base, r, state.is_little_endian)
        size == SizeOf(state.base)
    IN  [value |-> value,
         underflow |-> state.bytes_remaining # size
                        /\ Underflows(state.bytes_remaining, size),
         successor |->
            IF state.bytes_remaining = size
            THEN IF state.fields_remaining # 0
                 THEN [kind |-> "DefinitionFieldAlt",
                       fields_remaining |-> state.fields_remaining,
                       is_little_endian |-> state.is_little_endian]
                 ELSE RecordHeaderToken
            ELSE [kind |-> "Field", base |-> state.base,
                  fields_remaining |-> state.fields_remaining,
                  bytes_remaining |->
                      WrappingSub(state.bytes_remaining, size),
                  is_little_endian |-> state.is_little_endian]]

\* The FromRecord method each AnyField variant is dispatched to (the same
\* table in both drivers).
AddOf(base) ==
    CASE base \in {"U8", "U8Z"} -> "add_u8"
      [] base \in {"U16", "U16Z"} -> "add_u16"
      [] base \in {"U32", "U32Z"} -> "add_u32"
      [] base \in {"U64", "U64Z"} -> "add_u64"
      [] base = "I8" -> "add_i8"
      [] base = "I16" -> "add_i16"
      [] base = "I32" -> "add_i32"
      [] base = "I64" -> "add_i64"
      [] base = "F32" -> "add_f32"
      [] base = "F64" -> "add_f64"

---------------------------------------------------------------------------
(* The state.                                                              *)

VARIABLES
    input,              \* r: the bytes handed to both decoders
    shape,              \* how the input was put together (ghost)
    rejected,           \* the receiver: add_record(id) is None for these ids
    overflow_checks,    \* the build: does integer overflow panic or wrap
    slice_pc,           \* avec::slice::decode: "start", "loop" or "done"
    slice_i,            \*   i
    slice_end,          \*   end
    definition_table,   \*   definition_table
    slice_calls,        \*   the calls made on the receiver o, in order
    slice_result,       \*   what decode returned
    reader_pc,          \* avec::reader::decode: "wait", "start", "loop", "done"
    reader_pos,         \*   the position of the stream r
    reader_i,           \*   i
    reader_c,           \*   c
    reader_end,         \*   end
    definitions,        \*   definitions
    reader_calls,       \*   the calls made on the receiver o, in order
    reader_result,      \*   what decode returned
    fold_init,          \* sans::check::compute_crc: init
    fold_r,             \*   r
    fold_k,             \*   the place of the iterator in r, from 1
    fold_acc,           \*   acc
    kernel_tokens,      \* a caller of sans: the bag of tokens it owns
    kernel_log,         \*   the calls of advance it has made, in order
    derive_input,       \* derive(FromRecord): the named fields of the struct
    derive_fields,      \*   fields: the metadata of the annotated ones
    derive_pc,          \*   "parse", "loop", "expand" or "done"
    field_methods,      \*   field_methods
    time_method,        \*   time_method
    derive_result,      \*   what expand_from_record returned
    records_input,      \* derive(FromRecords): the named fields of the struct
    records_pc,         \*   "derive", "ready" or "failed"
    records_cases,      \*   the match arms of the generated add_record
    records_self,       \*   the struct the generated add_record works on
    records_returned,   \*   what the latest add_record returned
    records_calls,      \*   the ids add_record was called with, in order
    record_self,        \* the struct the generated add methods work on
    record_calls,       \*   the calls of its add methods, in order
    field_pc,           \* one field of a data record: "create", "drain",
                        \*   "done" or "panic"
    field_descriptor,   \*   the three bytes of its descriptor
    field_state,        \*   the token in hand
    field_advances,     \*   the calls of Field::advance so far
    pass_stream,        \* the two passes over a definition: the bytes from
                        \*   the definition's body on
    pass_pc,            \*   "first", "second", "done" or "stopped"
    pass_state,         \*   the token in hand
    pass_cursor,        \*   bytes of the definition taken in this pass
    pass_count,         \*   field descriptors advanced over in this pass
    pass_first,         \*   cursor and count at the end of the first pass
    pass_out,           \*   what the second pass returned: global, values
    pass_result,        \*   why the passes stopped, if they did
    header_pc,          \* two record headers: "define", "look" or "done"
    header_bytes,       \*   the header of a definition and a later header
    header_table,       \*   the store of definitions, by local index
    header_found        \*   what the later header's access returned

vars ==
    <<input, shape, rejected, overflow_checks,
      slice_pc, slice_i, slice_end, definition_table, slice_calls,
      slice_result,
      reader_pc, reader_pos, reader_i, reader_c, reader_end, definitions,
      reader_calls, reader_result,
      fold_init, fold_r, fold_k, fold_acc,
      kernel_tokens, kernel_log,
      derive_input, derive_fields, derive_pc, field_methods, time_method,
      derive_result,
      records_input, records_pc, records_cases, records_self,
      records_returned, records_calls, record_self, record_calls,
      field_pc, field_descriptor, field_state, field_advances,
      pass_stream, pass_pc, pass_state, pass_cursor, pass_count, pass_first,
      pass_out, pass_result,
      header_pc, header_bytes, header_table, header_found>>

inputVars == <<input, shape, rejected, overflow_checks>>

sliceVars ==
    <<slice_pc, slice_i, slice_end, definition_table, slice_calls,
      slice_result>>

readerVars ==
    <<reader_pc, reader_pos, reader_i, reader_c, reader_end, definitions,
      reader_calls, reader_result>>

foldVars == <<fold_init, fold_r, fold_k, fold_acc>>

kernelVars == <<kernel_tokens, kernel_log>>

deriveVars ==
    <<derive_input, derive_fields, derive_pc, field_methods, time_method,
      derive_result>>

recordsVars ==
    <<records_input, records_pc, records_cases, records_self,
      records_returned, records_calls>>

recordVars == <<record_self, record_calls>>

bindingVars == <<recordsVars, recordVars>>

fieldVars == <<field_pc, field_descriptor, field_state, field_advances>>

passVars ==
    <<pass_stream, pass_pc, pass_state, pass_cursor, pass_count, pass_first,
      pass_out, pass_result>>

headerVars == <<header_pc, header_bytes, header_table, header_found>>

sessionVars == <<passVars, headerVars>>

Slots == 0..15

Ok == <<"Ok">>

Running == <<>>

SubtractOverflow == <<"panic", "attempt to subtract with overflow">>

Unreachable == <<"panic", "unreachable">>

IndexOutOfBounds == <<"panic", "index out of bounds">>

UnwrapFailed == <<"panic", "unwrap on Err">>

---------------------------------------------------------------------------
(* avec.rs: the receivers.  o is the record [some, calls]: whether a       *)
(* record receiver is held, and the calls made so far.                     *)

\* FromRecords::add_record of a receiver that knows every id but the
\* rejected ones.
add_record(calls, id) ==
    [some |-> id \notin rejected,
     calls |-> Append(calls, <<"add_record", id>>)]

\* A variant that does not ask whether a record receiver is held.
add_time_offset_unguarded(o, time) ==
    IF time # None
    THEN [o EXCEPT !.calls = Append(@, <<"add_time_offset", time[1]>>)]
    ELSE o

\* if let (Some(o), Some(time)) = (&mut o, time) { o.add_time_offset(time) }
add_time_offset(o, time) ==
    IF o.some /\ time # None
    THEN [o EXCEPT !.calls = Append(@, <<"add_time_offset", time[1]>>)]
    ELSE o

\* A variant in which a value overtakes the calls made before it.
add_value_first(o, base, f, value) ==
    IF o.some /\ value # None
    THEN [o EXCEPT !.calls = <<<<AddOf(base), f, value[1]>>>> \o @]
    ELSE o

\* if let (Some(o), Some(value)) = (&mut o, value) { add(o, f, value) }
add_value(o, base, f, value) ==
    IF o.some /\ value # None
    THEN [o EXCEPT !.calls = Append(@, <<AddOf(base), f, value[1]>>)]
    ELSE o

---------------------------------------------------------------------------
(* avec/slice.rs                                                           *)

\* take::<N>(r, i): i is advanced, and the bytes are there or not.
slice_take(r, i, n) ==
    [ok |-> InRange(r, i, i + n), bytes |-> Get(r, i, i + n), i |-> i + n]

RECURSIVE slice_definition_loop(_, _, _)
slice_definition_loop(state, r, i) ==
    LET Taken(t) ==
            LET Advanced(a) ==
                    IF a.underflow /\ overflow_checks
                    THEN [res |-> SubtractOverflow, i |-> t.i]
                    ELSE IF a.successor.kind = "DefinitionField"
                    THEN slice_definition_loop(a.successor, r, t.i)
                    ELSE [res |-> Running, i |-> t.i]
            IN  IF ~t.ok THEN [res |-> <<"EndOfSlice">>, i |-> t.i]
                ELSE Advanced(DefinitionField_advance(state, t.bytes))
    IN  Taken(slice_take(r, i, 3))

slice_decode_definition(state, r, i) ==
    LET Taken(t) ==
            LET Advanced(successor) ==
                    IF successor.kind = "DefinitionField"
                    THEN slice_definition_loop(successor, r, t.i)
                    ELSE [res |-> Running, i |-> t.i]
            IN  IF ~t.ok THEN [res |-> <<"EndOfSlice">>, i |-> t.i]
                ELSE Advanced(Definition_advance(state, t.bytes))
    IN  Taken(slice_take(r, i, 5))

RECURSIVE slice_decode_field(_, _, _, _, _)
slice_decode_field(state, r, i, f, o) ==
    LET Taken(t) ==
            LET Advanced(a) ==
                    IF a.underflow /\ overflow_checks
                    THEN [res |-> SubtractOverflow, i |-> t.i, o |-> o]
                    ELSE IF a.successor.kind = "Field"
                    THEN slice_decode_field(
                             a.successor, r, t.i, f,
                             add_value(o, state.base, f, a.value))
                    ELSE [res |-> Running, i |-> t.i,
                          o |-> add_value(o, state.base, f, a.value),
                          successor |-> a.successor]
            IN  IF ~t.ok THEN [res |-> <<"EndOfSlice">>, i |-> t.i, o |-> o]
                ELSE Advanced(Field_advance(state, t.bytes))
    IN  Taken(slice_take(r, i, SizeOf(state.base)))

RECURSIVE slice_data_loop(_, _, _, _, _)
slice_data_loop(state, r, i, j, o) ==
    LET Taken(t) ==
            LET Decoded(d) ==
                    IF d.res # Running
                    THEN [res |-> d.res, i |-> d.i, j |-> t.i, o |-> d.o]
                    ELSE IF d.successor.kind = "DefinitionFieldAlt"
                    THEN slice_data_loop(d.successor, r, d.i, t.i, d.o)
                    ELSE [res |-> Running, i |-> d.i, j |-> t.i, o |-> d.o]
                Advanced(a) ==
                    IF a.underflow /\ overflow_checks
                    THEN [res |-> SubtractOverflow, i |-> i, j |-> t.i,
                          o |-> o]
                    ELSE IF a.unreachable
                    THEN [res |-> Unreachable, i |-> i, j |-> t.i, o |-> o]
                    ELSE Decoded(slice_decode_field(a.successor, r, i,
                                                    a.field, o))
            IN  IF ~t.ok
                THEN [res |-> <<"EndOfSlice">>, i |-> i, j |-> t.i, o |-> o]
                ELSE Advanced(DefinitionFieldAlt_advance(state, t.bytes))
    IN  Taken(slice_take(r, j, 3))

\* A variant that takes the definition from the data cursor on.
slice_decode_data_one_cursor(state, time, r, i, j, calls) ==
    LET Taken(t) ==
            LET Advanced(a) ==
                    LET Received(o) ==
                            IF a.successor.kind = "DefinitionFieldAlt"
                            THEN slice_data_loop(a.successor, r, i, t.i, o)
                            ELSE [res |-> Running, i |-> i, j |-> t.i,
                                  o |-> o]
                    IN  Received(add_time_offset(add_record(calls, a.global),
                                                 time))
            IN  IF ~t.ok
                THEN [res |-> <<"EndOfSlice">>, i |-> i, j |-> t.i,
                      o |-> [some |-> FALSE, calls |-> calls]]
                ELSE Advanced(DefinitionAlt_advance(state, t.bytes))
    IN  Taken(slice_take(r, i, 5))

slice_decode_data(state, time, r, i, j, calls) ==
    LET Taken(t) ==
            LET Advanced(a) ==
                    LET Received(o) ==
                            IF a.successor.kind = "DefinitionFieldAlt"
                            THEN slice_data_loop(a.successor, r, i, t.i, o)
                            ELSE [res |-> Running, i |-> i, j |-> t.i,
                                  o |-> o]
                    IN  Received(add_time_offset(add_record(calls, a.global),
                                                 time))
            IN  IF ~t.ok
                THEN [res |-> <<"EndOfSlice">>, i |-> i, j |-> t.i,
                      o |-> [some |-> FALSE, calls |-> calls]]
                ELSE Advanced(DefinitionAlt_advance(state, t.bytes))
    IN  Taken(slice_take(r, j, 5))

\* From<DocumentHeaderError> and From<RecordHeaderError> for Error.
HeaderError(err) == <<"Header">> \o err

RecordHeaderError(err) ==
    IF err = <<"DeveloperData">> THEN <<"Developer">> ELSE err

\* A head that reads the stored check value and goes on whatever it is.
slice_decode_head_unchecked(r) ==
    LET Verified(i, end) ==
            LET Compared(found, calculated) ==
                    IF Len(found) # 2
                    THEN [res |-> UnwrapFailed, i |-> i, end |-> end]
                    ELSE [res |-> Running, i |-> i, end |-> end]
            IN  IF ~InRange(r, end, Len(r))
                THEN [res |-> <<"EndOfSlice">>, i |-> i, end |-> end]
                ELSE Compared(Get(r, end, Len(r)),
                              compute_crc(0, Get(r, 0, end)))
        Taken(t) ==
            LET Advanced(h) ==
                    LET Extended(x) ==
                            IF ~x.ok
                            THEN [res |-> <<"EndOfSlice">>, i |-> x.i,
                                  end |-> 0]
                            ELSE Verified(x.i, x.i + h.size)
                    IN  IF h.err # <<>>
                        THEN [res |-> HeaderError(h.err), i |-> t.i,
                              end |-> 0]
                        ELSE IF h.successor.kind = "ExtendedDocumentHeader"
                        THEN Extended(slice_take(r, t.i, 2))
                        ELSE Verified(t.i, t.i + h.size)
            IN  IF ~t.ok THEN [res |-> <<"EndOfSlice">>, i |-> t.i, end |-> 0]
                ELSE Advanced(DocumentHeader_advance(t.bytes))
    IN  Taken(slice_take(r, 0, 12))

\* decode, up to the record loop: the document header and the cyclic
\* redundancy check.  [res, i, end].
slice_decode_head(r) ==
    LET Verified(i, end) ==
            LET Compared(found, calculated) ==
                    IF Len(found) # 2
                    THEN [res |-> UnwrapFailed, i |-> i, end |-> end]
                    ELSE IF found[1] + 256 * found[2] # calculated
                    THEN [res |-> <<"CyclicRedundancyCheck",
                                    found[1] + 256 * found[2], calculated>>,
                          i |-> i, end |-> end]
                    ELSE [res |-> Running, i |-> i, end |-> end]
            IN  IF ~InRange(r, end, Len(r))
                THEN [res |-> <<"EndOfSlice">>, i |-> i, end |-> end]
                ELSE Compared(Get(r, end, Len(r)),
                              compute_crc(0, Get(r, 0, end)))
        Taken(t) ==
            LET Advanced(h) ==
                    LET Extended(x) ==
                            IF ~x.ok
                            THEN [res |-> <<"EndOfSlice">>, i |-> x.i,
                                  end |-> 0]
                            ELSE Verified(x.i, x.i + h.size)
                    IN  IF h.err # <<>>
                        THEN [res |-> HeaderError(h.err), i |-> t.i,
                              end |-> 0]
                        ELSE IF h.successor.kind = "ExtendedDocumentHeader"
                        THEN Extended(slice_take(r, t.i, 2))
                        ELSE Verified(t.i, t.i + h.size)
            IN  IF ~t.ok THEN [res |-> <<"EndOfSlice">>, i |-> t.i, end |-> 0]
                ELSE Advanced(DocumentHeader_advance(t.bytes))
    IN  Taken(slice_take(r, 0, 12))

\* A variant of the loop's body that notes the record at the cursor as a
\* definition and leaves the cursor where it stands.
slice_decode_record_idle(r, i, table, calls) ==
    [res |-> Running, i |-> i,
     table |-> [table EXCEPT ![r[i + 1] % 16] = i + 1], calls |-> calls]

\* One turn of the record loop.  [res, i, table, calls].
slice_decode_record(r, i, table, calls) ==
    LET Taken(t) ==
            LET Defined(d, at) ==
                    [res |-> d.res, i |-> d.i,
                     table |-> [table EXCEPT ![at] = t.i], calls |-> calls]
                Published(d) ==
                    [res |-> d.res, i |-> d.i, table |-> table,
                     calls |-> d.o.calls]
                Advanced(h) ==
                    IF h.err # <<>>
                    THEN [res |-> RecordHeaderError(h.err), i |-> t.i,
                          table |-> table, calls |-> calls]
                    ELSE IF h.successor.kind = "Definition"
                    THEN Defined(slice_decode_definition(h.successor, r,
                                                         t.i), h.local)
                    ELSE Published(slice_decode_data(h.successor, h.time, r,
                                                     t.i, table[h.local],
                                                     calls))
            IN  IF ~t.ok
                THEN [res |-> <<"EndOfSlice">>, i |-> t.i, table |-> table,
                      calls |-> calls]
                ELSE Advanced(RecordHeader_advance(RecordHeaderToken,
                                                   t.bytes))
    IN  Taken(slice_take(r, i, 1))

\* A variant that enters the loop once more, at i = end.
SliceAfter_inclusive(res, i, end) ==
    IF res # Running THEN res ELSE IF i <= end THEN Running ELSE Ok

\* while *i < end { .. } Ok(())
SliceAfter(res, i, end) ==
    IF res # Running THEN res ELSE IF i < end THEN Running ELSE Ok

SliceBegin ==
    /\ slice_pc = "start"
    /\ \E h \in {slice_decode_head(input)} :
        \E res \in {SliceAfter(h.res, h.i, h.end)} :
           /\ slice_i' = h.i
           /\ slice_end' = h.end
           /\ slice_result' = res
           /\ slice_pc' = IF res = Running THEN "loop" ELSE "done"
           /\ reader_pc' = IF res = Running THEN reader_pc ELSE "start"
    /\ UNCHANGED <<definition_table, slice_calls>>
    /\ UNCHANGED <<reader_pos, reader_i, reader_c, reader_end, definitions,
                   reader_calls, reader_result>>
    /\ UNCHANGED inputVars
    /\ UNCHANGED <<foldVars, kernelVars, deriveVars, bindingVars, fieldVars,
                   sessionVars>>

SliceRecord ==
    /\ slice_pc = "loop"
    /\ \E d \in {slice_decode_record(input, slice_i, definition_table,
                                     slice_calls)} :
        \E res \in {SliceAfter(d.res, d.i, slice_end)} :
           /\ slice_i' = d.i
           /\ definition_table' = d.table
           /\ slice_calls' = d.calls
           /\ slice_result' = res
           /\ slice_pc' = IF res = Running THEN "loop" ELSE "done"
           /\ reader_pc' = IF res = Running THEN reader_pc ELSE "start"
    /\ UNCHANGED slice_end
    /\ UNCHANGED <<reader_pos, reader_i, reader_c, reader_end, definitions,
                   reader_calls, reader_result>>
    /\ UNCHANGED inputVars
    /\ UNCHANGED <<foldVars, kernelVars, deriveVars, bindingVars, fieldVars,
                   sessionVars>>

\* decode as a whole, on any bytes r: [res, calls].
RECURSIVE slice_decode_loop(_, _, _, _, _)
slice_decode_loop(r, i, end, table, calls) ==
    LET Stepped(d) ==
            IF SliceAfter(d.res, d.i, end) # Running
            THEN [res |-> SliceAfter(d.res, d.i, end), calls |-> d.calls]
            ELSE slice_decode_loop(r, d.i, end, d.table, d.calls)
    IN  Stepped(slice_decode_record(r, i, table, calls))

slice_decode(r) ==
    LET Begun(h) ==
            IF SliceAfter(h.res, h.i, h.end) # Running
            THEN [res |-> SliceAfter(h.res, h.i, h.end), calls |-> <<>>]
            ELSE slice_decode_loop(r, h.i, h.end, [l \in Slots |-> 0], <<>>)
    IN  Begun(slice_decode_head(r))

---------------------------------------------------------------------------
(* avec/reader.rs.  The stream r is the input and a position p; a captured *)
(* definition d is read as a slice that shrinks from the front.            *)

\* A variant that leaves the check value as it was.
reader_take_uncounted(r, p, i, c, n) ==
    IF p + n <= Len(r)
    THEN [ok |-> TRUE, bytes |-> Get(r, p, p + n), p |-> p + n, i |-> i + n,
          c |-> c]
    ELSE [ok |-> FALSE, p |-> Len(r), i |-> i, c |-> c]

\* take::<N>(r, Some((i, c))): read_exact on the stream, then the counter
\* and the check value.
reader_take(r, p, i, c, n) ==
    LET ok == p + n <= Len(r)
        buf == Get(r, p, p + n)
    IN  IF ok
        THEN [ok |-> TRUE, bytes |-> buf, p |-> p + n, i |-> i + n,
              c |-> compute_crc(c, buf)]
        ELSE [ok |-> FALSE, p |-> Len(r), i |-> i, c |-> c]

\* take::<N>(r, None) on the stream: neither i nor c changes.
reader_take_unchecked(r, p, n) ==
    [ok |-> p + n <= Len(r), bytes |-> Get(r, p, p + n), p |-> p + n]

\* A variant that does not move on in the captured definition.
reader_take_from_slice_stale(d, n) ==
    [ok |-> n <= Len(d), bytes |-> Get(d, 0, n), d |-> d]

\* take::<N>(d, None) on a captured definition.
reader_take_from_slice(d, n) ==
    [ok |-> n <= Len(d), bytes |-> Get(d, 0, n), d |-> Get(d, n, Len(d))]

RECURSIVE reader_definition_loop(_, _, _, _, _, _)
reader_definition_loop(state, r, p, i, c, d) ==
    LET Taken(t) ==
            LET Advanced(a) ==
                    IF a.underflow /\ overflow_checks
                    THEN [res |-> SubtractOverflow, p |-> t.p, i |-> t.i,
                          c |-> t.c, d |-> d \o t.bytes]
                    ELSE IF a.successor.kind = "DefinitionField"
                    THEN reader_definition_loop(a.successor, r, t.p, t.i,
                                                t.c, d \o t.bytes)
                    ELSE [res |-> Running, p |-> t.p, i |-> t.i, c |-> t.c,
                          d |-> d \o t.bytes]
            IN  IF ~t.ok
                THEN [res |-> <<"Io">>, p |-> t.p, i |-> t.i, c |-> t.c,
                      d |-> d]
                ELSE Advanced(DefinitionField_advance(state, t.bytes))
    IN  Taken(reader_take(r, p, i, c, 3))

\* A variant without d.clear(): the definition is added to what the slot
\* held.
reader_decode_definition_kept(state, r, p, i, c, d) ==
    LET Taken(t) ==
            LET Advanced(successor) ==
                    IF successor.kind = "DefinitionField"
                    THEN reader_definition_loop(successor, r, t.p, t.i, t.c,
                                                d \o t.bytes)
                    ELSE [res |-> Running, p |-> t.p, i |-> t.i, c |-> t.c,
                          d |-> d \o t.bytes]
            IN  IF ~t.ok
                THEN [res |-> <<"Io">>, p |-> t.p, i |-> t.i, c |-> t.c,
                      d |-> d]
                ELSE Advanced(Definition_advance(state, t.bytes))
    IN  Taken(reader_take(r, p, i, c, 5))

\* A variant that does not capture the first five bytes.
reader_decode_definition_headless(state, r, p, i, c, d) ==
    LET Taken(cleared, t) ==
            LET Advanced(successor) ==
                    IF successor.kind = "DefinitionField"
                    THEN reader_definition_loop(successor, r, t.p, t.i, t.c,
                                                cleared)
                    ELSE [res |-> Running, p |-> t.p, i |-> t.i, c |-> t.c,
                          d |-> cleared]
            IN  IF ~t.ok
                THEN [res |-> <<"Io">>, p |-> t.p, i |-> t.i, c |-> t.c,
                      d |-> cleared]
                ELSE Advanced(Definition_advance(state, t.bytes))
    IN  Taken(<<>>, reader_take(r, p, i, c, 5))

\* d.clear() comes first: whatever the slot held is gone.
reader_decode_definition(state, r, p, i, c, d) ==
    LET Taken(cleared, t) ==
            LET Advanced(successor) ==
                    IF successor.kind = "DefinitionField"
                    THEN reader_definition_loop(successor, r, t.p, t.i, t.c,
                                                cleared \o t.bytes)
                    ELSE [res |-> Running, p |-> t.p, i |-> t.i, c |-> t.c,
                          d |-> cleared \o t.bytes]
            IN  IF ~t.ok
                THEN [res |-> <<"Io">>, p |-> t.p, i |-> t.i, c |-> t.c,
                      d |-> cleared]
                ELSE Advanced(Definition_advance(state, t.bytes))
    IN  Taken(<<>>, reader_take(r, p, i, c, 5))

RECURSIVE reader_decode_field(_, _, _, _, _, _, _)
reader_decode_field(state, r, p, i, c, f, o) ==
    LET Taken(t) ==
            LET Advanced(a) ==
                    IF a.underflow /\ overflow_checks
                    THEN [res |-> SubtractOverflow, p |-> t.p, i |-> t.i,
                          c |-> t.c, o |-> o]
                    ELSE IF a.successor.kind = "Field"
                    THEN reader_decode_field(
                             a.successor, r, t.p, t.i, t.c, f,
                             add_value(o, state.base, f, a.value))
                    ELSE [res |-> Running, p |-> t.p, i |-> t.i, c |-> t.c,
                          o |-> add_value(o, state.base, f, a.value),
                          successor |-> a.successor]
            IN  IF ~t.ok
                THEN [res |-> <<"Io">>, p |-> t.p, i |-> t.i, c |-> t.c,
                      o |-> o]
                ELSE Advanced(Field_advance(state, t.bytes))
    IN  Taken(reader_take(r, p, i, c, SizeOf(state.base)))

RECURSIVE reader_data_loop(_, _, _, _, _, _, _)
reader_data_loop(state, r, p, i, c, d, o) ==
    LET Taken(t) ==
            LET Decoded(x) ==
                    IF x.res # Running
                    THEN [res |-> x.res, p |-> x.p, i |-> x.i, c |-> x.c,
                          d |-> t.d, o |-> x.o]
                    ELSE IF x.successor.kind = "DefinitionFieldAlt"
                    THEN reader_data_loop(x.successor, r, x.p, x.i, x.c,
                                          t.d, x.o)
                    ELSE [res |-> Running, p |-> x.p, i |-> x.i, c |-> x.c,
                          d |-> t.d, o |-> x.o]
                Advanced(a) ==
                    IF a.underflow /\ overflow_checks
                    THEN [res |-> SubtractOverflow, p |-> p, i |-> i,
                          c |-> c, d |-> t.d, o |-> o]
                    ELSE IF a.unreachable
                    THEN [res |-> Unreachable, p |-> p, i |-> i, c |-> c,
                          d |-> t.d, o |-> o]
                    ELSE Decoded(reader_decode_field(a.successor, r, p, i, c,
                                                     a.field, o))
            IN  IF ~t.ok
                THEN [res |-> <<"Io">>, p |-> p, i |-> i, c |-> c, d |-> d,
                      o |-> o]
                ELSE Advanced(DefinitionFieldAlt_advance(state, t.bytes))
    IN  Taken(reader_take_from_slice(d, 3))

\* A variant that counts and accumulates the five bytes it takes from the
\* captured definition.
reader_decode_data_counted(state, time, r, p, i, c, d, calls) ==
    LET Taken(t) ==
            LET Advanced(a) ==
                    LET Received(o) ==
                            IF a.successor.kind = "DefinitionFieldAlt"
                            THEN reader_data_loop(a.successor, r, p, i + 5,
                                                  compute_crc(c, t.bytes),
                                                  t.d, o)
                            ELSE [res |-> Running, p |-> p, i |-> i + 5,
                                  c |-> compute_crc(c, t.bytes), d |-> t.d,
                                  o |-> o]
                    IN  Received(add_time_offset(add_record(calls, a.global),
                                                 time))
            IN  IF ~t.ok
                THEN [res |-> <<"Io">>, p |-> p, i |-> i, c |-> c, d |-> d,
                      o |-> [some |-> FALSE, calls |-> calls]]
                ELSE Advanced(DefinitionAlt_advance(state, t.bytes))
    IN  Taken(reader_take_from_slice(d, 5))

reader_decode_data(state, time, r, p, i, c, d, calls) ==
    LET Taken(t) ==
            LET Advanced(a) ==
                    LET Received(o) ==
                            IF a.successor.kind = "DefinitionFieldAlt"
                            THEN reader_data_loop(a.successor, r, p, i, c,
                                                  t.d, o)
                            ELSE [res |-> Running, p |-> p, i |-> i,
                                  c |-> c, d |-> t.d, o |-> o]
                    IN  Received(add_time_offset(add_record(calls, a.global),
                                                 time))
            IN  IF ~t.ok
                THEN [res |-> <<"Io">>, p |-> p, i |-> i, c |-> c, d |-> d,
                      o |-> [some |-> FALSE, calls |-> calls]]
                ELSE Advanced(DefinitionAlt_advance(state, t.bytes))
    IN  Taken(reader_take_from_slice(d, 5))

\* decode, up to the record loop.  [res, p, i, c, end].
reader_decode_head(r) ==
    LET Taken(t) ==
            LET Advanced(h) ==
                    LET Extended(x) ==
                            IF ~x.ok
                            THEN [res |-> <<"Io">>, p |-> x.p, i |-> x.i,
                                  c |-> x.c, end |-> 0]
                            ELSE [res |-> Running, p |-> x.p, i |-> x.i,
                                  c |-> x.c, end |-> x.i + h.size]
                    IN  IF h.err # <<>>
                        THEN [res |-> HeaderError(h.err), p |-> t.p,
                              i |-> t.i, c |-> t.c, end |-> 0]
                        ELSE IF h.successor.kind = "ExtendedDocumentHeader"
                        THEN Extended(reader_take(r, t.p, t.i, t.c, 2))
                        ELSE [res |-> Running, p |-> t.p, i |-> t.i,
                              c |-> t.c, end |-> t.i + h.size]
            IN  IF ~t.ok
                THEN [res |-> <<"Io">>, p |-> t.p, i |-> t.i, c |-> t.c,
                      end |-> 0]
                ELSE Advanced(DocumentHeader_advance(t.bytes))
    IN  Taken(reader_take(r, 0, 0, 0, 12))

\* One turn of the record loop.  [res, p, i, c, defs, calls].
reader_decode_record(r, p, i, c, defs, calls) ==
    LET Taken(t) ==
            LET Advanced(h) ==
                    LET Defined(x) ==
                            [res |-> x.res, p |-> x.p, i |-> x.i, c |-> x.c,
                             defs |-> [defs EXCEPT ![h.local] = x.d],
                             calls |-> calls]
                        Published(x) ==
                            [res |-> x.res, p |-> x.p, i |-> x.i, c |-> x.c,
                             defs |-> defs, calls |-> x.o.calls]
                    IN  IF h.err # <<>>
                        THEN [res |-> RecordHeaderError(h.err), p |-> t.p,
                              i |-> t.i, c |-> t.c, defs |-> defs,
                              calls |-> calls]
                        ELSE IF h.successor.kind = "Definition"
                        THEN Defined(reader_decode_definition(
                                         h.successor, r, t.p, t.i, t.c,
                                         defs[h.local]))
                        ELSE Published(reader_decode_data(
                                           h.successor, h.time, r, t.p, t.i,
                                           t.c, defs[h.local], calls))
            IN  IF ~t.ok
                THEN [res |-> <<"Io">>, p |-> t.p, i |-> t.i, c |-> t.c,
                      defs |-> defs, calls |-> calls]
                ELSE Advanced(RecordHeader_advance(RecordHeaderToken,
                                                   t.bytes))
    IN  Taken(reader_take(r, p, i, c, 1))

\* After the loop: the two bytes that follow the records, against c.
\* [res, p].
reader_decode_tail(r, p, c) ==
    LET t == reader_take_unchecked(r, p, 2)
        calculated == c
        found == t.bytes[1] + 256 * t.bytes[2]
    IN  IF ~t.ok THEN [res |-> <<"Io">>, p |-> Len(r)]
        ELSE IF found # calculated
        THEN [res |-> <<"CyclicRedundancyCheck", found, calculated>>,
              p |-> t.p]
        ELSE [res |-> Ok, p |-> t.p]

\* while *i < end { .. }, then the tail.  [res, p].
ReaderAfter(res, r, p, i, c, end) ==
    IF res # Running THEN [res |-> res, p |-> p]
    ELSE IF i < end THEN [res |-> Running, p |-> p]
    ELSE reader_decode_tail(r, p, c)

ReaderBegin ==
    /\ reader_pc = "start"
    /\ \E h \in {reader_decode_head(input)} :
        \E z \in {ReaderAfter(h.res, input, h.p, h.i, h.c, h.end)} :
           /\ reader_pos' = z.p
           /\ reader_i' = h.i
           /\ reader_c' = h.c
           /\ reader_end' = h.end
           /\ reader_result' = z.res
           /\ reader_pc' = IF z.res = Running THEN "loop" ELSE "done"
    /\ UNCHANGED <<definitions, reader_calls>>
    /\ UNCHANGED sliceVars
    /\ UNCHANGED inputVars
    /\ UNCHANGED <<foldVars, kernelVars, deriveVars, bindingVars, fieldVars,
                   sessionVars>>

ReaderRecord ==
    /\ reader_pc = "loop"
    /\ \E x \in {reader_decode_record(input, reader_pos, reader_i,
                                      reader_c, definitions, reader_calls)} :
        \E z \in {ReaderAfter(x.res, input, x.p, x.i, x.c, reader_end)} :
           /\ reader_pos' = z.p
           /\ reader_i' = x.i
           /\ reader_c' = x.c
           /\ definitions' = x.defs
           /\ reader_calls' = x.calls
           /\ reader_result' = z.res
           /\ reader_pc' = IF z.res = Running THEN "loop" ELSE "done"
    /\ UNCHANGED reader_end
    /\ UNCHANGED sliceVars
    /\ UNCHANGED inputVars
    /\ UNCHANGED <<foldVars, kernelVars, deriveVars, bindingVars, fieldVars,
                   sessionVars>>

\* decode as a whole, on any bytes r: [res, calls].
RECURSIVE reader_decode_loop(_, _, _, _, _, _, _)
reader_decode_loop(r, p, i, c, end, defs, calls) ==
    LET Stepped(x) ==
            LET After(z) ==
                    IF z.res # Running
                    THEN [res |-> z.res, calls |-> x.calls]
                    ELSE reader_decode_loop(r, z.p, x.i, x.c, end, x.defs,
                                            x.calls)
            IN  After(ReaderAfter(x.res, r, x.p, x.i, x.c, end))
    IN  Stepped(reader_decode_record(r, p, i, c, defs, calls))

reader_decode(r) ==
    LET Begun(h) ==
            LET After(z) ==
                    IF z.res # Running
                    THEN [res |-> z.res, calls |-> <<>>]
                    ELSE reader_decode_loop(r, z.p, h.i, h.c, h.end,
                                            [l \in Slots |-> <<>>], <<>>)
            IN  After(ReaderAfter(h.res, r, h.p, h.i, h.c, h.end))
    IN  Begun(reader_decode_head(r))

---------------------------------------------------------------------------
(* The inputs.  A document is described by its shape: the header bytes,    *)
(* the records (definition records, data records written against the most  *)
(* recent definition of their slot, and single raw bytes), and what was    *)
(* done to the finished document (a wrong check value, bytes appended, a   *)
(* cut).  Encode turns a shape into the bytes the decoders are given, by   *)
(* the layout of the format: see the struct FileHeader, DefinitionMessage  *)
(* and FieldHeader, and the bitfields of RecordHeader::advance.            *)

MaxRecords == 3         \* records in a document of the general family

MaxCutRecords == 2      \* records in a document that is cut or altered

\* The base types of the format: width, invalid marker (most significant
\* byte first) and the receiver method, by base type code.
BaseTypeCodes ==
    {0, 1, 2, 131, 132, 133, 134, 7, 136, 137, 10, 139, 140, 13, 142, 143,
     144}

WidthOfCode(code) ==
    CASE code \in {0, 1, 2, 7, 10, 13} -> 1
      [] code \in {131, 132, 139} -> 2
      [] code \in {133, 134, 136, 140} -> 4
      [] code \in {137, 142, 143, 144} -> 8
      [] OTHER -> 1

MarkerOfCode(code) ==
    CASE code \in {0, 2, 13, 132, 134, 143} -> Repeat(255, WidthOfCode(code))
      [] code \in {7, 10, 139, 140, 144} -> Repeat(0, WidthOfCode(code))
      [] code \in {1, 131, 133, 142} ->
            <<127>> \o Repeat(255, WidthOfCode(code) - 1)
      [] code = 136 -> <<127, 127, 255, 255>>
      [] code = 137 -> <<127, 239, 255, 255, 255, 255, 255, 255>>

MethodOfCode(code) ==
    CASE code \in {0, 2, 13, 7, 10} -> "add_u8"
      [] code = 1 -> "add_i8"
      [] code = 131 -> "add_i16"
      [] code \in {132, 139} -> "add_u16"
      [] code = 133 -> "add_i32"
      [] code \in {134, 140} -> "add_u32"
      [] code = 136 -> "add_f32"
      [] code = 137 -> "add_f64"
      [] code = 142 -> "add_i64"
      [] code \in {143, 144} -> "add_u64"

\* A field descriptor the format allows: a known base type and a size that
\* is a positive multiple of its width.
FieldIsRegular(fd) ==
    /\ fd.base \in BaseTypeCodes
    /\ fd.size > 0
    /\ fd.size % WidthOfCode(fd.base) = 0

\* The elements of a data record are written by a pattern that repeats:
\* "v" a plain value, "m" the invalid marker, "w" the marker with its bytes
\* in reverse order.  The value of element k, most significant byte first:
ElementValue(code, what, k) ==
    CASE what = "v" -> [m \in 1..WidthOfCode(code) |-> 16 * k + m]
      [] what = "m" -> MarkerOfCode(code)
      [] what = "w" -> Reverse(MarkerOfCode(code))

PatternAt(pat, k) == pat[((k - 1) % Len(pat)) + 1]

\* The elements of a data record governed by definition def, in stream
\* order: [field, base, value], numbered k0 + 1, k0 + 2, .. for the pattern.
\* A field whose descriptor is not regular carries size raw bytes instead.
RECURSIVE ElementsFrom(_, _, _, _)
ElementsFrom(def, pat, n, k0) ==
    IF n > Len(def.fields) THEN <<>>
    ELSE LET fd == def.fields[n]
             count == IF FieldIsRegular(fd)
                      THEN fd.size \div WidthOfCode(fd.base) ELSE 0
         IN  [k \in 1..count |->
                 [field |-> fd.num, base |-> fd.base,
                  value |-> ElementValue(fd.base, PatternAt(pat, k0 + k),
                                         k0 + k)]]
             \o ElementsFrom(def, pat, n + 1, k0 + count)

Elements(def, pat) == ElementsFrom(def, pat, 1, 0)

OnWire(arch, value) == IF arch = 0 THEN Reverse(value) ELSE value

RECURSIVE Flatten(_)
Flatten(ss) == IF ss = <<>> THEN <<>> ELSE Head(ss) \o Flatten(Tail(ss))

\* The bytes of the fields of a data record.
RECURSIVE PayloadFrom(_, _, _, _)
PayloadFrom(def, pat, n, k0) ==
    IF n > Len(def.fields) THEN <<>>
    ELSE LET fd == def.fields[n]
             count == IF FieldIsRegular(fd)
                      THEN fd.size \div WidthOfCode(fd.base) ELSE 0
             bytes == IF FieldIsRegular(fd)
                      THEN Flatten([k \in 1..count |->
                              OnWire(def.arch,
                                     ElementValue(fd.base,
                                                  PatternAt(pat, k0 + k),
                                                  k0 + k))])
                      ELSE [k \in 1..fd.size |-> 16 + k]
         IN  bytes \o PayloadFrom(def, pat, n + 1, k0 + count)

Payload(def, pat) == PayloadFrom(def, pat, 1, 0)

GlobalOnWire(arch, global) ==
    OnWire(arch, <<global \div 256, global % 256>>)

EncodeDefinition(def) ==
    <<64 + def.local, 0, def.arch>> \o GlobalOnWire(def.arch, def.global)
    \o <<Len(def.fields)>>
    \o Flatten([n \in 1..Len(def.fields) |->
                  <<def.fields[n].num, def.fields[n].size,
                    def.fields[n].base>>])

DataHeaderByte(rec) ==
    IF rec.time = None THEN rec.local
    ELSE 128 + 32 * rec.local + rec.time[1]

Unset == [t |-> "unset"]

\* The definition that governs each slot after the first n records.
RECURSIVE Governing(_, _)
Governing(recs, n) ==
    IF n = 0 THEN [l \in Slots |-> Unset]
    ELSE LET before == Governing(recs, n - 1)
         IN  IF recs[n].t = "def"
             THEN [before EXCEPT ![recs[n].local] = recs[n]]
             ELSE before

EncodeRecord(recs, n) ==
    LET rec == recs[n]
        def == Governing(recs, n - 1)[rec.local]
    IN  CASE rec.t = "def" -> EncodeDefinition(rec)
          [] rec.t = "raw" -> <<rec.byte>>
          [] rec.t = "lone" -> <<rec.byte>>
          [] rec.t = "data" ->
                <<DataHeaderByte(rec)>>
                \o (IF def = Unset THEN <<>> ELSE Payload(def, rec.pat))

EncodeRecords(recs) == Flatten([n \in 1..Len(recs) |-> EncodeRecord(recs, n)])

LE16(x) == <<x % 256, x \div 256>>

LE32(x) ==
    <<x % 256, (x \div 256) % 256, (x \div 65536) % 256, x \div 16777216>>

\* The document before anything is done to it: header, records, check
\* value.
EncodeHeader(sh) ==
    <<sh.header_size, 16, 100, 0>>
    \o (IF sh.data_size = None
        THEN LE32(Len(EncodeRecords(sh.recs))) ELSE sh.data_size[1])
    \o sh.signature
    \o (IF sh.header_size = 14 THEN sh.tail ELSE <<>>)

Checked(sh) == EncodeHeader(sh) \o EncodeRecords(sh.recs)

Encode(sh) ==
    LET whole == Checked(sh)
                 \o LE16(Xor16(compute_crc(0, Checked(sh)), sh.crc_xor))
                 \o sh.extra
    IN  IF sh.cut = None THEN whole ELSE SubSeq(whole, 1, sh.cut[1])

---------------------------------------------------------------------------
(* The families of documents.                                              *)

Fd(num, size, base) == [num |-> num, size |-> size, base |-> base]

Def(local, arch, global, fields) ==
    [t |-> "def", local |-> local, arch |-> arch, global |-> global,
     fields |-> fields]

Data(local, time, pat) ==
    [t |-> "data", local |-> local, time |-> time, pat |-> pat]

Raw(byte) == [t |-> "raw", byte |-> byte]

\* The header of a data record with nothing after it.
Lone(byte) == [t |-> "lone", byte |-> byte]

Plain(header_size, recs) ==
    [header_size |-> header_size, signature |-> FitSignature,
     tail |-> <<0, 0>>, data_size |-> None, recs |-> recs, crc_xor |-> 0,
     extra |-> <<>>, cut |-> None]

HeaderSizes == {12, 14}

DefA == Def(0, 0, 20, <<Fd(0, 1, 0)>>)

DefB == Def(1, 1, 276, <<Fd(3, 4, 132), Fd(5, 3, 7)>>)

DefC == Def(1, 0, 0, <<>>)

RecordPool ==
    {DefA, DefB, DefC,
     Data(0, None, <<"v", "m">>),
     Data(1, Some(10), <<"m", "v", "w">>),
     Data(1, None, <<"v">>),
     Raw(32), Raw(96)}

SeqsUpTo(S, n) == UNION {[1..m -> S] : m \in 0..n}

\* Records the format allows: definitions with regular fields, and data
\* records whose slot has been defined.
RecordsAreRegular(recs) ==
    \A n \in 1..Len(recs) :
        CASE recs[n].t = "def" ->
                \A m \in 1..Len(recs[n].fields) :
                    FieldIsRegular(recs[n].fields[m])
          [] recs[n].t = "data" ->
                Governing(recs, n - 1)[recs[n].local] # Unset
          [] OTHER -> FALSE

\* Any records of the pool, in any order.
GeneralShapes ==
    {Plain(hs, recs) : hs \in HeaderSizes,
                       recs \in SeqsUpTo(RecordPool, MaxRecords)}

\* One array of two elements of each base type code, and of two codes
\* that are no base type, in each byte order.
TypeShapes ==
    {Plain(hs, <<Def(0, arch, 276,
                     <<Fd(7, 2 * WidthOfCode(code), code)>>),
                 Data(0, None, pat)>>) :
        hs \in HeaderSizes, code \in BaseTypeCodes \cup {3, 128},
        arch \in {0, 1, 2}, pat \in {<<"v", "m">>, <<"w", "v">>}}

\* Sizes that are no positive multiple of the width.
SizeShapes ==
    {Plain(hs, <<Def(0, 0, 20, <<Fd(1, x[1], x[2])>>),
                 Data(0, None, <<"v">>), Data(0, None, <<"v">>)>>) :
        hs \in HeaderSizes,
        x \in {<<0, 0>>, <<0, 132>>, <<1, 132>>, <<3, 132>>}}

\* Documents the format allows, to be altered.
SmallRegular ==
    {recs \in SeqsUpTo(RecordPool, MaxCutRecords) : RecordsAreRegular(recs)}

CutShapes ==
    UNION {
        {[Plain(hs, recs) EXCEPT !.cut = Some(k)] :
            k \in 0..(Len(Encode(Plain(hs, recs))) - 1)} :
        hs \in HeaderSizes, recs \in SmallRegular}

CrcShapes ==
    {[Plain(hs, recs) EXCEPT !.crc_xor = x] :
        hs \in HeaderSizes, recs \in SmallRegular, x \in {1, 257, 32768}}

ExtraShapes ==
    {[Plain(hs, recs) EXCEPT !.extra = x] :
        hs \in HeaderSizes, recs \in SmallRegular,
        x \in {<<0>>, <<7, 7>>}}

\* Records of a message the receiver may reject, with records after them.
DiscardShapes ==
    {Plain(hs, recs) :
        hs \in HeaderSizes,
        recs \in {<<DefA, DefB, Data(1, Some(10), <<"m", "v", "w">>),
                    Data(0, None, <<"v", "m">>)>>,
                  <<DefB, Data(1, None, <<"v">>), DefC,
                    Data(1, Some(3), <<"v">>)>>,
                  <<DefB, DefA, Data(1, Some(31), <<"v">>),
                    Data(0, None, <<"v">>), Data(1, None, <<"w", "v">>)>>}}

\* Compressed headers of the last slot they reach, and the last slot of
\* all.
TimeShapes ==
    {Plain(hs, recs) :
        hs \in HeaderSizes,
        recs \in {<<Def(3, 0, 20, <<Fd(0, 1, 0)>>),
                    Data(3, Some(0), <<"v">>), Data(3, None, <<"v">>),
                    Data(3, Some(31), <<"m">>)>>,
                  <<Def(2, 1, 276, <<>>), Data(2, Some(1), <<"v">>),
                    Data(2, None, <<"v">>)>>,
                  <<Def(15, 1, 65535, <<Fd(255, 2, 132)>>),
                    Data(15, None, <<"v">>)>>}}

\* Documents without records, with any two bytes at the end of a header
\* of 14 (the format keeps a CRC of the first 12 there).
EmptyShapes ==
    {[Plain(14, <<>>) EXCEPT !.tail = x] :
        x \in {<<0, 0>>, <<216, 41>>, <<255, 255>>, <<1, 2>>}}
    \cup {Plain(12, <<>>)}

\* Headers: other lengths, other signatures, other declared sizes.
HeaderShapes ==
    {[Plain(hs, <<DefA, Data(0, None, <<"v">>)>>)
        EXCEPT !.signature = sig, !.data_size = ds] :
        hs \in {0, 12, 13, 14, 19, 255},
        sig \in {FitSignature, <<46, 70, 73, 85>>, <<47, 70, 73, 84>>,
                 <<46, 102, 73, 84>>, <<84, 73, 70, 46>>},
        ds \in {None, Some(<<8, 0, 0, 0>>), Some(<<9, 1, 0, 0>>),
                Some(<<1, 2, 3, 4>>)}}

\* A data record whose header is the last byte of the record section: the
\* declared size ends before the two bytes of its field.
StraddleShapes ==
    {Plain(hs, <<Def(0, 0, 20, <<Fd(0, 2, 0)>>), Lone(0)>>) :
        hs \in HeaderSizes}

Shapes ==
    GeneralShapes \cup TypeShapes \cup SizeShapes \cup CutShapes
    \cup CrcShapes \cup ExtraShapes \cup HeaderShapes \cup DiscardShapes
    \cup TimeShapes \cup EmptyShapes \cup StraddleShapes

---------------------------------------------------------------------------
(* The specification: decode_slice, then decode_reader, on one input with  *)
(* receivers that behave alike.                                            *)

\* Nothing has been folded, no token is owned, nothing is being derived.
FoldIdle ==
    /\ fold_init = 0
    /\ fold_r = <<>>
    /\ fold_k = 1
    /\ fold_acc = 0

KernelIdle ==
    /\ kernel_tokens = EmptyBag
    /\ kernel_log = <<>>

DeriveIdle ==
    /\ derive_input = <<>>
    /\ derive_fields = <<>>
    /\ derive_pc = "done"
    /\ field_methods = <<>>
    /\ time_method = None
    /\ derive_result = <<>>

RecordsIdle ==
    /\ records_input = <<>>
    /\ records_pc = "ready"
    /\ records_cases = <<>>
    /\ records_self = <<>>
    /\ records_returned = None
    /\ records_calls = <<>>

RecordIdle ==
    /\ record_self = <<>>
    /\ record_calls = <<>>

FieldIdle ==
    /\ field_pc = "done"
    /\ field_descriptor = <<>>
    /\ field_state = <<>>
    /\ field_advances = 0

PassIdle ==
    /\ pass_stream = <<>>
    /\ pass_pc = "done"
    /\ pass_state = <<>>
    /\ pass_cursor = 0
    /\ pass_count = 0
    /\ pass_first = <<>>
    /\ pass_out = <<>>
    /\ pass_result = <<>>

HeaderIdle ==
    /\ header_pc = "done"
    /\ header_bytes = <<>>
    /\ header_table = <<>>
    /\ header_found = <<>>

Init ==
    /\ shape \in Shapes
    /\ input = Encode(shape)
    /\ rejected \in {{}, {276}}
    /\ overflow_checks \in BOOLEAN
    /\ slice_pc = "start"
    /\ slice_i = 0
    /\ slice_end = 0
    /\ definition_table = [l \in Slots |-> 0]
    /\ slice_calls = <<>>
    /\ slice_result = Running
    /\ reader_pc = "wait"
    /\ reader_pos = 0
    /\ reader_i = 0
    /\ reader_c = 0
    /\ reader_end = 0
    /\ definitions = [l \in Slots |-> <<>>]
    /\ reader_calls = <<>>
    /\ reader_result = Running
    /\ FoldIdle
    /\ KernelIdle
    /\ DeriveIdle
    /\ RecordsIdle
    /\ RecordIdle
    /\ FieldIdle
    /\ PassIdle
    /\ HeaderIdle

Next == SliceBegin \/ SliceRecord \/ ReaderBegin \/ ReaderRecord

Spec == Init /\ [][Next]_vars

---------------------------------------------------------------------------
(* compute_crc on its own: the fold of sans/check.rs, one byte a step.     *)

MaxFoldLen == 3

\* The accumulators a fold starts from: every single bit, none, all, and
\* two values met while decoding.
FoldInits ==
    {0, 1, 2, 4, 8, 16, 32, 64, 128, 256, 512, 1024, 2048, 4096, 8192,
     16384, 32768, 65535, 37598, 10712}

FoldBytes == {0, 1, 15, 16, 128, 255}

\* The slices folded: nothing, every single byte, short runs, the
\* signature and the header of a document without records.
FoldInputs ==
    {<<b>> : b \in Byte}
    \cup SeqsUpTo(FoldBytes, MaxFoldLen)
    \cup {FitSignature, <<12, 16, 100, 0, 0, 0, 0, 0, 46, 70, 73, 84>>}

\* Neither decoder has been called.
DriversIdle ==
    /\ shape = Plain(12, <<>>)
    /\ input = Encode(shape)
    /\ rejected = {}
    /\ slice_pc = "start"
    /\ slice_i = 0
    /\ slice_end = 0
    /\ definition_table = [l \in Slots |-> 0]
    /\ slice_calls = <<>>
    /\ slice_result = Running
    /\ reader_pc = "wait"
    /\ reader_pos = 0
    /\ reader_i = 0
    /\ reader_c = 0
    /\ reader_end = 0
    /\ definitions = [l \in Slots |-> <<>>]
    /\ reader_calls = <<>>
    /\ reader_result = Running

FoldInit ==
    /\ DriversIdle
    /\ overflow_checks = TRUE
    /\ KernelIdle
    /\ DeriveIdle
    /\ RecordsIdle
    /\ RecordIdle
    /\ FieldIdle
    /\ PassIdle
    /\ HeaderIdle
    /\ fold_init \in FoldInits
    /\ fold_r \in FoldInputs
    /\ fold_k = 1
    /\ fold_acc = fold_init

\* One turn of r.iter().fold(init, |acc, b| crc_byte(acc, *b)).
FoldStep ==
    /\ fold_k <= Len(fold_r)
    /\ fold_acc' = crc_byte(fold_acc, fold_r[fold_k])
    /\ fold_k' = fold_k + 1
    /\ UNCHANGED <<fold_init, fold_r>>
    /\ UNCHANGED <<inputVars, sliceVars, readerVars>>
    /\ UNCHANGED <<kernelVars, deriveVars, bindingVars, fieldVars,
                   sessionVars>>

FoldNext == FoldStep

FoldSpec == FoldInit /\ [][FoldNext]_vars

---------------------------------------------------------------------------
(* A caller of sans from outside the module: the tokens it owns and the    *)
(* calls of advance it makes, in any order the language lets it.           *)

MaxOwned == 1

MaxCalls == 8

TokenKinds ==
    {"DocumentHeader", "ExtendedDocumentHeader", "RecordHeader",
     "Definition", "DefinitionField", "DefinitionAlt", "DefinitionFieldAlt",
     "Field"}

\* A variant in which RecordHeader derives Clone as well.
TokenDerives_clone(kind) ==
    CASE kind = "DefinitionAlt" -> {}
      [] kind = "RecordHeader" -> {"Debug", "Clone"}
      [] OTHER -> {"Debug"}

\* The derive attribute on each token struct.
TokenDerives(kind) ==
    CASE kind = "DefinitionAlt" -> {}
      [] OTHER -> {"Debug"}

\* The visibility of each field of each token struct; a unit struct has
\* no field.
TokenFields(kind) ==
    CASE kind = "DocumentHeader" -> <<>>
      [] kind \in {"ExtendedDocumentHeader", "RecordHeader", "Definition",
                   "DefinitionAlt", "DefinitionField"} -> <<"pub(super)">>
      [] kind = "DefinitionFieldAlt" -> <<"pub(super)", "pub(super)">>
      [] kind = "Field" ->
            <<"pub(super)", "pub(super)", "pub(super)", "pub(super)">>

\* What advance takes beside the bytes: self by value, or nothing.
AdvanceReceiver(kind) ==
    IF kind = "DocumentHeader" THEN "none" ELSE "self"

\* A struct expression is open to code outside sans when every field is.
Constructible(kind) ==
    \/ \A n \in 1..Len(TokenFields(kind)) : TokenFields(kind)[n] = "pub"
    \/ "Default" \in TokenDerives(kind)

Duplicable(kind) == TokenDerives(kind) \cap {"Clone", "Copy"} # {}

\* The value a struct expression of each kind would build.
TokenOfKind(kind) ==
    CASE kind \in {"DefinitionField"} ->
            [kind |-> kind, fields_remaining |-> 1]
      [] kind = "DefinitionFieldAlt" ->
            [kind |-> kind, fields_remaining |-> 1,
             is_little_endian |-> TRUE]
      [] kind = "Field" ->
            [kind |-> kind, base |-> "U8", fields_remaining |-> 0,
             bytes_remaining |-> 1, is_little_endian |-> TRUE]
      [] OTHER -> [kind |-> kind]

\* The type of a token: Field<T> is one type for each T.
KindOf(tok) ==
    IF tok.kind = "Field" THEN <<"Field", tok.base>> ELSE <<tok.kind>>

\* An owned token: its value, how the caller came by it ("new", "clone"
\* or "advance") and how often advance has been called on it.
Own(tok, origin) == [tok |-> tok, origin |-> origin, uses |-> 0]

Owned(kind) == {t \in BagToSet(kernel_tokens) : t.tok.kind = kind}

\* What advance may be called on: None stands for no token at all.
Receivers(kind) ==
    IF AdvanceReceiver(kind) = "none" THEN {None}
    ELSE {Some(t) : t \in Owned(kind)}

\* Passing a token by value moves it out of the caller's hands, unless
\* its type is Copy.
Moved(receiver) ==
    IF receiver = None THEN kernel_tokens
    ELSE IF "Copy" \in TokenDerives(receiver[1].tok.kind)
    THEN (kernel_tokens (-) SetToBag({receiver[1]}))
         (+) SetToBag({[receiver[1] EXCEPT !.uses = 1]})
    ELSE kernel_tokens (-) SetToBag({receiver[1]})

\* A call of advance that returned successor (or none, on an error or a
\* panic).
Called(kind, receiver, successor) ==
    /\ kernel_log' =
          Append(kernel_log,
                 [state |-> IF receiver = None THEN <<kind>>
                            ELSE KindOf(receiver[1].tok),
                  took |-> receiver # None,
                  successor |-> IF successor = None THEN None
                                ELSE Some(KindOf(successor[1]))])
    /\ kernel_tokens' =
          IF successor = None THEN Moved(receiver)
          ELSE Moved(receiver) (+) SetToBag({Own(successor[1], "advance")})
    /\ UNCHANGED <<inputVars, sliceVars, readerVars>>
    /\ UNCHANGED <<foldVars, deriveVars, bindingVars, fieldVars,
                   sessionVars>>

\* Room for the successor of a call on this receiver.
HasRoom(receiver) ==
    /\ Len(kernel_log) < MaxCalls
    /\ BagCardinality(kernel_tokens)
          < MaxOwned + (IF receiver = None THEN 0 ELSE 1)

HeaderInputs ==
    {<<hs, 16, 100, 0, 0, 0, 0, 0, 46, 70, 73, sig>> :
        hs \in {12, 13, 14}, sig \in {84, 85}}

RecordHeaderInputs == {<<0>>, <<64>>, <<32>>, <<128>>}

DefinitionInputs == {<<0, 0, 0, 20, n>> : n \in {0, 2}}

DefinitionAltInputs == {<<0, 0, 0, 20, 0>>, <<0, 0, 0, 20, 2>>,
                        <<0, 1, 0, 20, 3>>}

DefinitionFieldAltInputs ==
    {<<3, 1, 0>>, <<3, 2, 0>>, <<3, 2, 132>>, <<3, 1, 1>>, <<3, 1, 99>>}

FieldInputs(base) == {Invalid(base), Repeat(1, SizeOf(base))}

\* A struct expression, or clone() on a token that is owned.
CallerObtains ==
    /\ BagCardinality(kernel_tokens) < MaxOwned
    /\ \E t \in {Own(TokenOfKind(kind), "new") :
                    kind \in {k \in TokenKinds : Constructible(k)}}
                \cup {Own(o.tok, "clone") :
                        o \in {m \in BagToSet(kernel_tokens) :
                                  Duplicable(m.tok.kind)}} :
          kernel_tokens' = kernel_tokens (+) SetToBag({t})
    /\ UNCHANGED kernel_log
    /\ UNCHANGED <<inputVars, sliceVars, readerVars>>
    /\ UNCHANGED <<foldVars, deriveVars, bindingVars, fieldVars,
                   sessionVars>>

AdvanceDocumentHeader ==
    \E id \in Receivers("DocumentHeader"), r \in HeaderInputs :
        /\ HasRoom(id)
        /\ \E x \in {DocumentHeader_advance(r)} :
            Called("DocumentHeader", id,
                   IF x.err = <<>> THEN Some(x.successor) ELSE None)

AdvanceExtendedDocumentHeader ==
    \E id \in Receivers("ExtendedDocumentHeader") :
        /\ HasRoom(id)
        /\ Called("ExtendedDocumentHeader", id,
                  Some(ExtendedDocumentHeader_advance(id[1].tok, <<0, 0>>)))

AdvanceRecordHeader ==
    \E id \in Receivers("RecordHeader"), r \in RecordHeaderInputs :
        /\ HasRoom(id)
        /\ \E x \in {RecordHeader_advance(id[1].tok, r)} :
            Called("RecordHeader", id,
                   IF x.err = <<>> THEN Some(x.successor) ELSE None)

AdvanceDefinition ==
    \E id \in Receivers("Definition"), r \in DefinitionInputs :
        /\ HasRoom(id)
        /\ Called("Definition", id, Some(Definition_advance(id[1].tok, r)))

AdvanceDefinitionField ==
    \E id \in Receivers("DefinitionField") :
        /\ HasRoom(id)
        /\ \E x \in {DefinitionField_advance(id[1].tok, <<0, 1, 0>>)} :
            Called("DefinitionField", id,
                   IF x.underflow /\ overflow_checks THEN None
                   ELSE Some(x.successor))

AdvanceDefinitionAlt ==
    \E id \in Receivers("DefinitionAlt"), r \in DefinitionAltInputs :
        /\ HasRoom(id)
        /\ Called("DefinitionAlt", id,
                  Some(DefinitionAlt_advance(id[1].tok, r).successor))

AdvanceDefinitionFieldAlt ==
    \E id \in Receivers("DefinitionFieldAlt"),
       r \in DefinitionFieldAltInputs :
        /\ HasRoom(id)
        /\ \E x \in {DefinitionFieldAlt_advance(id[1].tok, r)} :
            Called("DefinitionFieldAlt", id,
                   IF x.unreachable \/ (x.underflow /\ overflow_checks)
                   THEN None ELSE Some(x.successor))

AdvanceField ==
    \E id \in Receivers("Field") :
        /\ HasRoom(id)
        /\ \E r \in FieldInputs(id[1].tok.base) :
            \E x \in {Field_advance(id[1].tok, r)} :
                Called("Field", id,
                       IF x.underflow /\ overflow_checks THEN None
                       ELSE Some(x.successor))

KernelInit ==
    /\ DriversIdle
    /\ overflow_checks \in BOOLEAN
    /\ FoldIdle
    /\ DeriveIdle
    /\ RecordsIdle
    /\ RecordIdle
    /\ FieldIdle
    /\ PassIdle
    /\ HeaderIdle
    /\ kernel_tokens = EmptyBag
    /\ kernel_log = <<>>

KernelNext ==
    \/ CallerObtains
    \/ AdvanceDocumentHeader
    \/ AdvanceExtendedDocumentHeader
    \/ AdvanceRecordHeader
    \/ AdvanceDefinition
    \/ AdvanceDefinitionField
    \/ AdvanceDefinitionAlt
    \/ AdvanceDefinitionFieldAlt
    \/ AdvanceField

KernelSpec == KernelInit /\ [][KernelNext]_vars

---------------------------------------------------------------------------
(* derive/src/from_record.rs: expand_from_record on a struct with named    *)
(* fields, one field of the loop a step.                                   *)

MaxFields == 3

\* The primitive a field without a handler stands for: the T of its type
\* Option<T>.
FieldTypes == {"u8", "u16"}

\* The field attribute: none, field(N) or field(time).
FieldAttributes == {None, <<"Number", 5>>, <<"Number", 6>>, <<"Time">>}

\* A named field; the names of a struct differ, so a field is named by
\* its place.
NamedFields == [attr : FieldAttributes, ty : FieldTypes]

DeriveInputs == SeqsUpTo(NamedFields, MaxFields)

NotUnique == <<"Err", "Field identifiers must be unique.">>

\* FieldMetadata::parse on the field at place n: nothing without a field
\* attribute.  With a handler the primitive is the type of the closure's
\* second parameter, and the handler is kept with the type of the field;
\* without one it is the T of Option<T>.
FieldMetadata_parse(field, n) ==
    IF field.attr = None THEN None
    ELSE IF "handler" \in DOMAIN field
         THEN Some([name |-> n, primitive |-> field.handler.val,
                    identifier |-> field.attr,
                    handler |-> Some(<<field.ty, field.handler>>)])
    ELSE Some([name |-> n, primitive |-> field.ty,
               identifier |-> field.attr, handler |-> None])

\* iter().map(parse).flatten().collect(): the metadata of the annotated
\* fields, in order.
RECURSIVE CollectFrom(_, _)
CollectFrom(fields, n) ==
    IF n > Len(fields) THEN <<>>
    ELSE FieldMetadata_parse(fields[n], n) \o CollectFrom(fields, n + 1)

\* HashMap::entry(k).or_default(), get and insert on maps kept as
\* functions.
OrDefault(map, k) == IF k \in DOMAIN map THEN map[k] ELSE <<>>

Existing(map, k) == IF k \in DOMAIN map THEN Some(map[k]) ELSE None

Insert(map, k, v) ==
    [j \in DOMAIN map \cup {k} |-> IF j = k THEN v ELSE map[j]]

DeriveParse ==
    /\ derive_pc = "parse"
    /\ derive_fields' = CollectFrom(derive_input, 1)
    /\ derive_pc' = "loop"
    /\ UNCHANGED <<derive_input, field_methods, time_method, derive_result>>
    /\ UNCHANGED <<inputVars, sliceVars, readerVars>>
    /\ UNCHANGED <<foldVars, kernelVars, bindingVars, fieldVars,
                   sessionVars>>

\* One turn of the loop over fields.
DeriveField ==
    /\ derive_pc = "loop"
    /\ derive_fields # <<>>
    /\ \E field \in {Head(derive_fields)} :
        \E assignment \in {<<field.name, field.handler>>} :
          /\ derive_fields' = Tail(derive_fields)
          /\ IF field.identifier[1] = "Number"
             THEN \E inner \in {OrDefault(field_methods, field.primitive)} :
                    /\ field_methods' =
                          Insert(field_methods, field.primitive,
                                 Insert(inner, field.identifier[2],
                                        assignment))
                    /\ time_method' = time_method
                    /\ IF Existing(inner, field.identifier[2]) # None
                       THEN derive_result' = NotUnique /\ derive_pc' = "done"
                       ELSE UNCHANGED <<derive_result, derive_pc>>
             ELSE /\ time_method' = Some(assignment)
                  /\ field_methods' = field_methods
                  /\ IF time_method # None
                     THEN derive_result' = NotUnique /\ derive_pc' = "done"
                     ELSE UNCHANGED <<derive_result, derive_pc>>
    /\ UNCHANGED derive_input
    /\ UNCHANGED <<inputVars, sliceVars, readerVars>>
    /\ UNCHANGED <<foldVars, kernelVars, bindingVars, fieldVars,
                   sessionVars>>

\* The impl: one add method for each primitive with one match arm for
\* each number, and add_time_offset.
DeriveExpand ==
    /\ derive_pc = "loop"
    /\ derive_fields = <<>>
    /\ derive_result' =
          <<"Ok", [methods |-> field_methods, time |-> time_method]>>
    /\ derive_pc' = "done"
    /\ UNCHANGED <<derive_input, derive_fields, field_methods, time_method>>
    /\ UNCHANGED <<inputVars, sliceVars, readerVars>>
    /\ UNCHANGED <<foldVars, kernelVars, bindingVars, fieldVars,
                   sessionVars>>

DeriveInit ==
    /\ DriversIdle
    /\ overflow_checks = TRUE
    /\ FoldIdle
    /\ KernelIdle
    /\ derive_input \in DeriveInputs
    /\ derive_fields = <<>>
    /\ derive_pc = "parse"
    /\ field_methods = <<>>
    /\ time_method = None
    /\ derive_result = <<>>
    /\ RecordsIdle
    /\ RecordIdle
    /\ FieldIdle
    /\ PassIdle
    /\ HeaderIdle

DeriveNext == DeriveParse \/ DeriveField \/ DeriveExpand

DeriveSpec == DeriveInit /\ [][DeriveNext]_vars

----------------------------------------------------------------------------
(* derive/src/from_records.rs: derive(FromRecords) on a struct with named  *)
(* fields, and the add_record it generates.  A field is what the macro     *)
(* looks at: its record attribute, if any, and the first segment of its    *)
(* type.  The struct the generated method works on holds, for each field,  *)
(* the elements of its container; an element is Default until the receiver *)
(* handed out for it has been given a value.                                *)

MaxRecordFields == 2
MaxAddRecord == 3

RecordAttributes == {None, Some(0), Some(20)}
RecordTypes == {"Option", "Vec", "Box"}
RecordFields == [attr : RecordAttributes, ty : RecordTypes]
RecordsInputs == SeqsUpTo(RecordFields, MaxRecordFields)
MessageNumbers == {0, 20, 31}

Default == 0
Given == 1

NotAContainer == <<"Err", "Field must have an Option<T> or Vec<T> type.">>

\* FieldMetadata::parse of from_records.rs: None for a field without the
\* attribute, an error for a type that is neither Option nor Vec.
RecordMetadata_parse(field, n) ==
    IF field.attr = None THEN <<"Ok", None>>
    ELSE IF field.ty = "Option"
         THEN <<"Ok", Some([name |-> n, number |-> field.attr[1],
                            is_vec |-> FALSE])>>
    ELSE IF field.ty = "Vec"
         THEN <<"Ok", Some([name |-> n, number |-> field.attr[1],
                            is_vec |-> TRUE])>>
    ELSE NotAContainer

RECURSIVE RecordsCollectFrom(_, _)
RecordsCollectFrom(fields, n) ==
    IF n > Len(fields) THEN <<"Ok", <<>>>>
    ELSE LET Parsed(p) ==
                 IF p[1] = "Err" THEN p
                 ELSE LET Rest(rest) ==
                              IF rest[1] = "Err" THEN rest
                              ELSE <<"Ok", p[2] \o rest[2]>>
                      IN  Rest(RecordsCollectFrom(fields, n + 1))
         IN  Parsed(RecordMetadata_parse(fields[n], n))

\* expand_from_records: one match arm per annotated field, in field order.
expand_from_records ==
    /\ records_pc = "derive"
    /\ \E collected \in {RecordsCollectFrom(records_input, 1)} :
           IF collected[1] = "Err"
           THEN /\ records_pc' = "failed"
                /\ records_cases' = <<>>
           ELSE /\ records_pc' = "ready"
                /\ records_cases' = collected[2]
    /\ UNCHANGED <<records_input, records_self, records_returned,
                   records_calls>>
    /\ UNCHANGED <<inputVars, sliceVars, readerVars, foldVars, kernelVars,
                   deriveVars, recordVars, fieldVars,
                   sessionVars>>

\* The arm a match on id takes: the first one whose literal is id.
FirstArm(cases, id) ==
    IF \E k \in 1..Len(cases) : cases[k].number = id
    THEN Some(cases[CHOOSE k \in 1..Len(cases) :
                        /\ cases[k].number = id
                        /\ \A j \in 1..k - 1 : cases[j].number # id])
    ELSE None

\* The generated add_record.
add_record_generated(id) ==
    /\ records_pc = "ready"
    /\ Len(records_calls) < MaxAddRecord
    /\ records_calls' = Append(records_calls, id)
    /\ \E arm \in {FirstArm(records_cases, id)} :
           IF arm = None
           THEN /\ records_returned' = None
                /\ UNCHANGED records_self
           ELSE \E name \in {arm[1].name} :
                    IF arm[1].is_vec
                    THEN /\ records_self' =
                                [records_self EXCEPT
                                    ![name] = Append(@, Default)]
                         /\ records_returned' =
                                Some([name |-> name,
                                      at |-> Len(records_self[name]) + 1,
                                      used |-> FALSE])
                    ELSE /\ records_self' =
                                [records_self EXCEPT ![name] = <<Default>>]
                         /\ records_returned' =
                                Some([name |-> name, at |-> 1,
                                      used |-> FALSE])
    /\ UNCHANGED <<records_input, records_pc, records_cases>>
    /\ UNCHANGED <<inputVars, sliceVars, readerVars, foldVars, kernelVars,
                   deriveVars, recordVars, fieldVars,
                   sessionVars>>

AddRecord == \E id \in MessageNumbers : add_record_generated(id)

\* The caller gives a value to the receiver it was handed.
ReceiverGiven ==
    /\ records_pc = "ready"
    /\ records_returned # None
    /\ ~records_returned[1].used
    /\ \E r \in {records_returned[1]} :
           /\ records_self' = [records_self EXCEPT ![r.name][r.at] = Given]
           /\ records_returned' = Some([r EXCEPT !.used = TRUE])
    /\ UNCHANGED <<records_input, records_pc, records_cases, records_calls>>
    /\ UNCHANGED <<inputVars, sliceVars, readerVars, foldVars, kernelVars,
                   deriveVars, recordVars, fieldVars,
                   sessionVars>>

RecordsInit ==
    /\ DriversIdle
    /\ overflow_checks = TRUE
    /\ FoldIdle
    /\ KernelIdle
    /\ DeriveIdle
    /\ RecordIdle
    /\ FieldIdle
    /\ PassIdle
    /\ HeaderIdle
    /\ records_input \in RecordsInputs
    /\ records_pc = "derive"
    /\ records_cases = <<>>
    /\ records_self = [n \in 1..Len(records_input) |-> <<>>]
    /\ records_returned = None
    /\ records_calls = <<>>

RecordsNext == expand_from_records \/ AddRecord \/ ReceiverGiven

RecordsSpec == RecordsInit /\ [][RecordsNext]_vars

----------------------------------------------------------------------------
(* derive/src/from_record.rs l.69-119: the methods the derived impl is     *)
(* made of, applied to a struct.  The struct holds for each field the      *)
(* value of its Option (None, Some(v)) or, for a field with a handler      *)
(* pushing to a Vec, the elements pushed.                                   *)

MaxReceiverFields == 2
MaxReceived == 2

\* |v, c: T| v.push(c), the handler of tests/derive.rs.
Pushing(primitive) == [acc |-> "v", val |-> primitive, body |-> "push"]

ReceiverFields ==
    [attr : {<<"Number", 5>>, <<"Number", 6>>}, ty : FieldTypes]
    \cup {[attr |-> a, ty |-> "Vec", handler |-> Pushing(t)] :
              a \in {<<"Number", 5>>, <<"Number", 6>>}, t \in FieldTypes}

ReceiverInputs == SeqsUpTo(ReceiverFields, MaxReceiverFields)

ReceivedNumbers == {5, 6, 7}
ReceivedValues == {1, 2}

\* A closure that puts the value in front.
CallHandler_front(handler, acc, value) ==
    IF handler.body = "push" THEN <<value>> \o acc ELSE acc

\* The closure called with (&mut self.name, value).
CallHandler(handler, acc, value) ==
    IF handler.body = "push" THEN Append(acc, value) ELSE acc

\* The assignment of a match arm (from_record.rs l.71-83).
Assignment(case, self, value) ==
    IF case[2] = None
    THEN [self EXCEPT ![case[1]] = Some(value)]
    ELSE [self EXCEPT ![case[1]] = CallHandler(case[2][1][2], @, value)]

\* A method whose match takes its arm without looking at the number.
add_primitive_any_field(impl, self, primitive, field, value) ==
    IF primitive \in DOMAIN impl.methods
    THEN Assignment(impl.methods[primitive]
                        [CHOOSE n \in DOMAIN impl.methods[primitive] : TRUE],
                    self, value)
    ELSE self

\* add_<primitive>(&mut self, field, value) of the impl: the generated
\* method when the struct has a field of that primitive, the trait's
\* default otherwise.
add_primitive(impl, self, primitive, field, value) ==
    IF primitive \in DOMAIN impl.methods
    THEN IF field \in DOMAIN impl.methods[primitive]
         THEN Assignment(impl.methods[primitive][field], self, value)
         ELSE self
    ELSE self

\* add_time_offset(&mut self, offset) of the impl.
add_time_offset_generated(impl, self, offset) ==
    IF impl.time = None THEN self
    ELSE Assignment(impl.time[1], self, offset)

\* The struct's Default: every Option None, every Vec empty.
StructDefault(fields) == [n \in 1..Len(fields) |-> <<>>]

Receive ==
    /\ derive_pc = "done"
    /\ derive_result[1] = "Ok"
    /\ Len(record_calls) < MaxReceived
    /\ \E primitive \in FieldTypes, field \in ReceivedNumbers,
          value \in ReceivedValues :
           /\ record_self' = add_primitive(derive_result[2], record_self,
                                           primitive, field, value)
           /\ record_calls' = Append(record_calls,
                                     <<primitive, field, value>>)
    /\ UNCHANGED <<inputVars, sliceVars, readerVars, foldVars, kernelVars,
                   deriveVars, recordsVars, fieldVars,
                   sessionVars>>

ReceiverInit ==
    /\ DriversIdle
    /\ overflow_checks = TRUE
    /\ FoldIdle
    /\ KernelIdle
    /\ RecordsIdle
    /\ FieldIdle
    /\ PassIdle
    /\ HeaderIdle
    /\ derive_input \in ReceiverInputs
    /\ derive_fields = <<>>
    /\ derive_pc = "parse"
    /\ field_methods = <<>>
    /\ time_method = None
    /\ derive_result = <<>>
    /\ record_self = StructDefault(derive_input)
    /\ record_calls = <<>>

ReceiverNext == DeriveParse \/ DeriveField \/ DeriveExpand \/ Receive

ReceiverSpec == ReceiverInit /\ [][ReceiverNext]_vars

\* expand_from_record as a whole: the loop over the annotated fields, and
\* the impl or the error it ends with.
RECURSIVE LoopOver(_, _, _)
LoopOver(fields, methods, time) ==
    IF fields = <<>> THEN <<"Ok", [methods |-> methods, time |-> time]>>
    ELSE LET field == Head(fields)
             assignment == <<field.name, field.handler>>
         IN  IF field.identifier[1] = "Number"
             THEN LET inner == OrDefault(methods, field.primitive)
                  IN  IF Existing(inner, field.identifier[2]) # None
                      THEN NotUnique
                      ELSE LoopOver(Tail(fields),
                                    Insert(methods, field.primitive,
                                           Insert(inner, field.identifier[2],
                                                  assignment)),
                                    time)
             ELSE IF time # None THEN NotUnique
                  ELSE LoopOver(Tail(fields), methods, Some(assignment))

expand_from_record(fields) == LoopOver(CollectFrom(fields, 1), <<>>, None)

\* The primitive a method of FromRecord receives.
PrimitiveOfMethod(method) ==
    CASE method = "add_u8" -> "u8"
      [] method = "add_u16" -> "u16"
      [] method = "add_u32" -> "u32"
      [] method = "add_u64" -> "u64"
      [] method = "add_i8" -> "i8"
      [] method = "add_i16" -> "i16"
      [] method = "add_i32" -> "i32"
      [] method = "add_i64" -> "i64"
      [] method = "add_f32" -> "f32"
      [] method = "add_f64" -> "f64"

\* One call a driver makes, on a receiver with the derived impl.
Dispatch(impl, self, call) ==
    CASE call[1] = "add_record" -> self
      [] call[1] = "add_time_offset" ->
            add_time_offset_generated(impl, self, call[2])
      [] OTHER ->
            add_primitive(impl, self, PrimitiveOfMethod(call[1]),
                          call[2], call[3])

\* The struct after the calls from k on.
RECURSIVE Replay(_, _, _, _)
Replay(impl, self, calls, k) ==
    IF k > Len(calls) THEN self
    ELSE Replay(impl, Dispatch(impl, self, calls[k]), calls, k + 1)

\* Structs of accumulators after Course of tests/derive.rs: one or two
\* fields with a pushing handler, their numbers different.
AccumulatorFields ==
    {[attr |-> <<"Number", n>>, ty |-> "Vec", handler |-> Pushing(t)] :
        n \in {5, 7}, t \in FieldTypes}

Accumulators ==
    {<<f>> : f \in AccumulatorFields}
    \cup {p \in AccumulatorFields \X AccumulatorFields :
              p[1].attr # p[2].attr}

----------------------------------------------------------------------------
(* One field of a data record, as the drivers' decode_field loops over it: *)
(* DefinitionFieldAlt::advance is given a descriptor and returns a Field   *)
(* token, and Field::advance is called until it returns another kind of    *)
(* token.                                                                   *)

MaxElements == 3
MaxAdvances == 6
MaxFieldsRemaining == 2

\* Sizes for a base type of width w: the multiples of w up to MaxElements
\* elements, 0, and each of them plus one byte.
FieldSizes(w) == {k * w + e : k \in 0..MaxElements, e \in {0, 1}}

FieldDescriptors ==
    {<<3, size, code>> : code \in BaseTypeCodes,
                         size \in UNION {FieldSizes(w) : w \in {1, 2, 4, 8}}}

DefinitionFieldAltTokens ==
    [kind : {"DefinitionFieldAlt"}, fields_remaining : 1..MaxFieldsRemaining,
     is_little_endian : BOOLEAN]

FieldCreate ==
    /\ field_pc = "create"
    /\ \E x \in {DefinitionFieldAlt_advance(field_descriptor.from,
                                            field_descriptor.r)} :
          /\ field_state' = x.successor
          /\ field_pc' = IF x.unreachable
                            \/ (x.underflow /\ overflow_checks)
                         THEN "panic" ELSE "drain"
    /\ UNCHANGED <<field_descriptor, field_advances>>
    /\ UNCHANGED <<inputVars, sliceVars, readerVars, foldVars, kernelVars,
                   deriveVars, bindingVars, sessionVars>>

FieldAdvance ==
    /\ field_pc = "drain"
    /\ field_advances < MaxAdvances
    /\ \E r \in FieldInputs(field_state.base) :
        \E x \in {Field_advance(field_state, r)} :
          IF x.underflow /\ overflow_checks
          THEN /\ field_pc' = "panic"
               /\ UNCHANGED <<field_state, field_advances>>
          ELSE /\ field_state' = x.successor
               /\ field_advances' = field_advances + 1
               /\ field_pc' = IF x.successor.kind = "Field"
                              THEN "drain" ELSE "done"
    /\ UNCHANGED field_descriptor
    /\ UNCHANGED <<inputVars, sliceVars, readerVars, foldVars, kernelVars,
                   deriveVars, bindingVars, sessionVars>>

FieldInit ==
    /\ DriversIdle
    /\ overflow_checks \in BOOLEAN
    /\ FoldIdle
    /\ KernelIdle
    /\ DeriveIdle
    /\ RecordsIdle
    /\ RecordIdle
    /\ PassIdle
    /\ HeaderIdle
    /\ field_pc = "create"
    /\ field_descriptor \in [r : {d \in FieldDescriptors :
                                      d[2] \in FieldSizes(WidthOfCode(d[3]))},
                             from : DefinitionFieldAltTokens]
    /\ field_state = <<>>
    /\ field_advances = 0

FieldNext == FieldCreate \/ FieldAdvance

FieldSpec == FieldInit /\ [][FieldNext]_vars

---------------------------------------------------------------------------
(* The two passes over one definition, a call of advance a step, fed as    *)
(* the drivers feed them: the first pass takes the body from the tip of    *)
(* the stream (decode_definition), a data record of the same slot follows, *)
(* and the second pass takes the body again from where the first began     *)
(* (decode_data: j, or the captured d), with the elements of the fields    *)
(* in between.                                                             *)

MaxPassFields == 2

MaxPassReads == 6

PassArchitectures == {0, 1, 2, 255}

\* Field descriptors: regular ones, sizes that are no positive multiple of
\* the width, and a code that is no base type.
PassDescriptors ==
    {<<0, 1, 0>>, <<3, 4, 132>>, <<5, 2, 7>>, <<1, 3, 132>>, <<2, 0, 0>>,
     <<9, 1, 99>>}

\* The body of a definition (struct DefinitionMessage, then a FieldHeader
\* for each field) and the bytes that follow it in the document.
PassBody(arch, fields) ==
    <<0, arch, 1, 20, Len(fields)>> \o Flatten(fields)

PassStreams ==
    {PassBody(arch, fields) \o <<7, 1, 0>> :
        arch \in PassArchitectures,
        fields \in SeqsUpTo(PassDescriptors, MaxPassFields)}

\* The bytes of element k of a data record, as they are in the stream.
PassElement(base, k) == [m \in 1..SizeOf(base) |-> 16 * k + m]

ReadPast == <<"read past the definition">>

\* take in the second pass: from the body the first pass went over, and
\* no further.
PassTake(n) ==
    [ok |-> pass_cursor + n <= pass_first.cursor,
     bytes |-> Get(pass_stream, pass_cursor, pass_cursor + n),
     i |-> pass_cursor + n]

PassStops(result) ==
    /\ pass_pc' = "stopped"
    /\ pass_result' = result
    /\ UNCHANGED <<pass_stream, pass_state, pass_cursor, pass_count,
                   pass_first, pass_out>>

PassOthers ==
    /\ UNCHANGED <<inputVars, sliceVars, readerVars, foldVars, kernelVars,
                   deriveVars, bindingVars, fieldVars, headerVars>>

PassDefinition ==
    /\ pass_pc = "first"
    /\ pass_state.kind = "Definition"
    /\ \E t \in {slice_take(pass_stream, pass_cursor, 5)} :
          IF ~t.ok THEN PassStops(<<"EndOfSlice">>)
          ELSE /\ pass_state' = Definition_advance(pass_state, t.bytes)
               /\ pass_cursor' = t.i
               /\ UNCHANGED <<pass_stream, pass_pc, pass_count, pass_first,
                              pass_out, pass_result>>
    /\ PassOthers

PassDefinitionField ==
    /\ pass_pc = "first"
    /\ pass_state.kind = "DefinitionField"
    /\ \E t \in {slice_take(pass_stream, pass_cursor, 3)} :
          IF ~t.ok THEN PassStops(<<"EndOfSlice">>)
          ELSE \E a \in {DefinitionField_advance(pass_state, t.bytes)} :
                IF a.underflow /\ overflow_checks
                THEN PassStops(SubtractOverflow)
                ELSE /\ pass_state' = a.successor
                     /\ pass_cursor' = t.i
                     /\ pass_count' = pass_count + 1
                     /\ UNCHANGED <<pass_stream, pass_pc, pass_first,
                                    pass_out, pass_result>>
    /\ PassOthers

\* The header of a data record of the slot: the definition cursor is set
\* to where the body began.
PassRecordHeader ==
    /\ pass_pc = "first"
    /\ pass_state.kind = "RecordHeader"
    /\ \E h \in {RecordHeader_advance(pass_state, <<0>>)} :
          /\ pass_state' = h.successor
          /\ pass_first' = [cursor |-> pass_cursor, count |-> pass_count]
          /\ pass_cursor' = 0
          /\ pass_count' = 0
          /\ pass_pc' = "second"
    /\ UNCHANGED <<pass_stream, pass_out, pass_result>>
    /\ PassOthers

PassDefinitionAlt ==
    /\ pass_pc = "second"
    /\ pass_state.kind = "DefinitionAlt"
    /\ \E t \in {PassTake(5)} :
          IF ~t.ok THEN PassStops(ReadPast)
          ELSE \E a \in {DefinitionAlt_advance(pass_state, t.bytes)} :
                /\ pass_state' = a.successor
                /\ pass_cursor' = t.i
                /\ pass_out' = [global |-> a.global, f |-> 0,
                                values |-> <<>>]
                /\ pass_pc' = IF a.successor.kind = "RecordHeader"
                              THEN "done" ELSE "second"
                /\ UNCHANGED <<pass_stream, pass_count, pass_first,
                               pass_result>>
    /\ PassOthers

PassDefinitionFieldAlt ==
    /\ pass_pc = "second"
    /\ pass_state.kind = "DefinitionFieldAlt"
    /\ \E t \in {PassTake(3)} :
          IF ~t.ok THEN PassStops(ReadPast)
          ELSE \E x \in {DefinitionFieldAlt_advance(pass_state, t.bytes)} :
                IF x.underflow /\ overflow_checks
                THEN PassStops(SubtractOverflow)
                ELSE IF x.unreachable THEN PassStops(Unreachable)
                ELSE /\ pass_state' = x.successor
                     /\ pass_cursor' = t.i
                     /\ pass_count' = pass_count + 1
                     /\ pass_out' = [pass_out EXCEPT !.f = x.field]
                     /\ UNCHANGED <<pass_stream, pass_pc, pass_first,
                                    pass_result>>
    /\ PassOthers

PassField ==
    /\ pass_pc = "second"
    /\ pass_state.kind = "Field"
    /\ Len(pass_out.values) < MaxPassReads
    /\ \E r \in {PassElement(pass_state.base, Len(pass_out.values) + 1)} :
        \E x \in {Field_advance(pass_state, r)} :
          IF x.underflow /\ overflow_checks
          THEN PassStops(SubtractOverflow)
          ELSE /\ pass_state' = x.successor
               /\ pass_out' =
                    [pass_out EXCEPT !.values =
                        Append(@, [f |-> pass_out.f, r |-> r,
                                   base |-> pass_state.base,
                                   value |-> x.value])]
               /\ pass_pc' = IF x.successor.kind = "RecordHeader"
                             THEN "done" ELSE "second"
               /\ UNCHANGED <<pass_stream, pass_cursor, pass_count,
                              pass_first, pass_result>>
    /\ PassOthers

PassInit ==
    /\ DriversIdle
    /\ overflow_checks \in BOOLEAN
    /\ FoldIdle
    /\ KernelIdle
    /\ DeriveIdle
    /\ RecordsIdle
    /\ RecordIdle
    /\ FieldIdle
    /\ HeaderIdle
    /\ pass_stream \in PassStreams
    /\ pass_pc = "first"
    /\ pass_state = [kind |-> "Definition"]
    /\ pass_cursor = 0
    /\ pass_count = 0
    /\ pass_first = <<>>
    /\ pass_out = <<>>
    /\ pass_result = Running

PassNext ==
    \/ PassDefinition
    \/ PassDefinitionField
    \/ PassRecordHeader
    \/ PassDefinitionAlt
    \/ PassDefinitionFieldAlt
    \/ PassField

PassSpec == PassInit /\ [][PassNext]_vars

---------------------------------------------------------------------------
(* The record loop's use of its definition table, a header at a time: two  *)
(* record headers, each advanced by the kernel, and the slot of the table  *)
(* the driver then writes (a definition) or reads (data).  The table holds *)
(* the header byte of the definition last noted in each slot, 0 for none.  *)

HeaderOthers ==
    /\ UNCHANGED <<inputVars, sliceVars, readerVars, foldVars, kernelVars,
                   deriveVars, bindingVars, fieldVars, passVars>>

\* The header the loop is at.
HeaderAt ==
    RecordHeader_advance(RecordHeaderToken,
                         <<header_bytes[Len(header_found) + 1]>>)

HeaderAfter ==
    IF Len(header_found) + 1 = Len(header_bytes) THEN "done" ELSE "loop"

\* Err(RecordHeaderError::DeveloperData)? leaves decode.
HeaderRefused ==
    /\ header_pc = "loop"
    /\ HeaderAt.err # <<>>
    /\ header_pc' = "done"
    /\ header_found' = Append(header_found, HeaderAt.err)
    /\ UNCHANGED <<header_bytes, header_table>>
    /\ HeaderOthers

\* Left(state) => { definition_table[local as usize] = *i; .. }
HeaderDefinition ==
    /\ header_pc = "loop"
    /\ HeaderAt.err = <<>>
    /\ HeaderAt.successor.kind = "Definition"
    /\ IF HeaderAt.local \in DOMAIN header_table
       THEN /\ header_table' = [header_table EXCEPT
                                   ![HeaderAt.local] =
                                      header_bytes[Len(header_found) + 1]]
            /\ header_found' = Append(header_found, <<"noted", HeaderAt.local>>)
            /\ header_pc' = HeaderAfter
       ELSE /\ header_pc' = "panic"
            /\ header_found' = Append(header_found, IndexOutOfBounds)
            /\ UNCHANGED header_table
    /\ UNCHANGED header_bytes
    /\ HeaderOthers

\* Right((time_offset, state)) => { let mut j = definition_table[local as
\* usize]; .. }
HeaderData ==
    /\ header_pc = "loop"
    /\ HeaderAt.err = <<>>
    /\ HeaderAt.successor.kind = "DefinitionAlt"
    /\ IF HeaderAt.local \in DOMAIN header_table
       THEN /\ header_found' = Append(header_found,
                                      <<"found", HeaderAt.local,
                                        header_table[HeaderAt.local]>>)
            /\ header_pc' = HeaderAfter
       ELSE /\ header_pc' = "panic"
            /\ header_found' = Append(header_found, IndexOutOfBounds)
    /\ UNCHANGED <<header_bytes, header_table>>
    /\ HeaderOthers

HeaderInit ==
    /\ DriversIdle
    /\ overflow_checks = TRUE
    /\ FoldIdle
    /\ KernelIdle
    /\ DeriveIdle
    /\ RecordsIdle
    /\ RecordIdle
    /\ FieldIdle
    /\ PassIdle
    /\ header_bytes \in [1..2 -> Byte]
    /\ header_pc = "loop"
    /\ header_table = [l \in Slots |-> 0]
    /\ header_found = <<>>

HeaderNext == HeaderRefused \/ HeaderDefinition \/ HeaderData

HeaderSpec == HeaderInit /\ [][HeaderNext]_vars

---------------------------------------------------------------------------
(* What the receiver is to be told.  The calls a document asks for are     *)
(* read off the records it was put together from, not off its bytes.       *)

Done == slice_pc = "done" /\ reader_pc = "done"

Panicked(res) == res # <<>> /\ res[1] = "panic"

IsError(res) == res # Running /\ res # Ok /\ ~Panicked(res)

IsPrefix(s, t) == Len(s) <= Len(t) /\ s = SubSeq(t, 1, Len(s))

\* The header of the document is as the format asks.
HeaderIsRegular(sh) ==
    /\ sh.signature = FitSignature
    /\ sh.header_size \in HeaderSizes
    /\ sh.data_size = None

\* Nothing was done to the finished document.
Unaltered(sh) ==
    /\ HeaderIsRegular(sh)
    /\ sh.crc_xor = 0
    /\ sh.extra = <<>>
    /\ sh.cut = None

ValidDocument(sh) == Unaltered(sh) /\ RecordsAreRegular(sh.recs)

\* The add_* calls for elements es: one for each that is not the marker.
ElementCalls(es) ==
    LET kept == SelectSeq(es, LAMBDA e : e.value # MarkerOfCode(e.base))
    IN  [k \in 1..Len(kept) |->
            <<MethodOfCode(kept[k].base), kept[k].field, kept[k].value>>]

\* The elements of data record n; none when its slot has no definition.
ElementsOf(recs, n) ==
    LET def == Governing(recs, n - 1)[recs[n].local]
    IN  IF recs[n].t # "data" \/ def = Unset THEN <<>>
        ELSE Elements(def, recs[n].pat)

\* The calls record n asks for.
RecordCalls(recs, n) ==
    LET rec == recs[n]
        def == Governing(recs, n - 1)[rec.local]
    IN  IF rec.t # "data" \/ def = Unset THEN <<>>
        ELSE <<<<"add_record", def.global>>>>
             \o (IF def.global \in rejected THEN <<>>
                 ELSE (IF rec.time = None THEN <<>>
                       ELSE <<<<"add_time_offset", rec.time[1]>>>>)
                      \o ElementCalls(ElementsOf(recs, n)))

ExpectedCalls(recs) == Flatten([n \in 1..Len(recs) |-> RecordCalls(recs, n)])

IsValueCall(call) == call[1] \notin {"add_record", "add_time_offset"}

ValueCalls(calls) == SelectSeq(calls, IsValueCall)

\* The add_* calls a document asks for: the elements, in stream order, of
\* the data records whose message the receiver accepts.
ExpectedValues(recs) ==
    Flatten([n \in 1..Len(recs) |->
        IF recs[n].t = "data"
           /\ Governing(recs, n - 1)[recs[n].local] # Unset
           /\ Governing(recs, n - 1)[recs[n].local].global \in rejected
        THEN <<>>
        ELSE ElementCalls(ElementsOf(recs, n))])

\* The offset at which the first k records of the document end.
Consumed(sh, k) ==
    sh.header_size + Len(Flatten([n \in 1..k |-> EncodeRecord(sh.recs, n)]))

\* The last definition record for slot l among the first k records, or 0.
RECURSIVE LatestDefinition(_, _, _)
LatestDefinition(recs, k, l) ==
    IF k = 0 THEN 0
    ELSE IF recs[k].t = "def" /\ recs[k].local = l THEN k
    ELSE LatestDefinition(recs, k - 1, l)

\* The first raw byte among the records, or 0.
RECURSIVE FirstRawFrom(_, _)
FirstRawFrom(recs, n) ==
    IF n > Len(recs) THEN 0
    ELSE IF recs[n].t = "raw" THEN n
    ELSE FirstRawFrom(recs, n + 1)

FirstRaw(recs) == FirstRawFrom(recs, 1)

---------------------------------------------------------------------------
(* The properties.                                                         *)

\* C1.  Driver equivalence: on a valid document (signature, header length
\* 12 or 14, records filling data_size, every data record after a
\* definition of its slot, correct check value) the slice driver and the
\* reader driver return the same result and make the same calls on the
\* receiver, with the same field numbers and values, in the same order.
C1_DriverEquivalence ==
    Done /\ ValidDocument(shape) =>
        /\ slice_result = reader_result
        /\ slice_calls = reader_calls

C1_Witness ==
    /\ Done
    /\ ValidDocument(shape)
    /\ shape.header_size = 14
    /\ slice_result = Ok
    /\ reader_result = Ok
    /\ Len(reader_calls) >= 6
    /\ \E k \in 1..Len(slice_calls) : slice_calls[k][1] = "add_time_offset"

\* C2.  Framing safety, as stated: a valid document cut at any offset
\* before its end makes the slice driver return EndOfSlice and the reader
\* driver return Io, and neither panics, also when the cut removes only
\* one or both bytes of the check value.
C2_TruncationReturnsError ==
    Done /\ shape.cut # None /\ HeaderIsRegular(shape)
         /\ shape.crc_xor = 0 /\ shape.extra = <<>>
         /\ RecordsAreRegular(shape.recs) =>
        /\ slice_result = <<"EndOfSlice">>
        /\ reader_result = <<"Io">>

\* C3.  Suppression of invalid markers: an element whose bytes, read in
\* the byte order of the definition, are the marker of its base type (all
\* ones for the unsigned types, the signed maximum for the signed ones,
\* zero for the z types) makes Field::advance return None and gives no
\* add_* call; every other element is dispatched exactly once.
C3_InvalidMarkersSuppressed ==
    Done /\ ValidDocument(shape) =>
        /\ ValueCalls(slice_calls) = ExpectedValues(shape.recs)
        /\ ValueCalls(reader_calls) = ExpectedValues(shape.recs)
        /\ \A n \in 1..Len(shape.recs) :
             LET def == Governing(shape.recs, n - 1)[shape.recs[n].local]
                 es == ElementsOf(shape.recs, n)
             IN  \A k \in 1..Len(es) :
                    Field_advance(
                        [kind |-> "Field", base |-> AnyFieldOf(es[k].base),
                         fields_remaining |-> 0,
                         bytes_remaining |-> WidthOfCode(es[k].base),
                         is_little_endian |-> def.arch = 0],
                        OnWire(def.arch, es[k].value)).value
                    = IF es[k].value = MarkerOfCode(es[k].base)
                      THEN None ELSE Some(es[k].value)

C3_Witness ==
    /\ Done
    /\ ValidDocument(shape)
    /\ rejected = {}
    /\ Len(shape.recs) = 2
    /\ shape.recs[1].t = "def"
    /\ shape.recs[1].arch = 0
    /\ shape.recs[1].fields = <<Fd(7, 4, 131)>>
    /\ shape.recs[2].t = "data"
    /\ shape.recs[2].pat = <<"v", "m">>
    /\ slice_calls = <<<<"add_record", 276>>, <<"add_i16", 7, <<17, 18>>>>>>
    /\ reader_calls = slice_calls

\* C4.  Dispatch ordering: the calls on the receiver follow the byte
\* order of the data records; within a data record add_record comes
\* first, the field values follow in the order of the field descriptors of
\* the governing definition, and the elements of an array in the order of
\* their offsets.  So at every moment the calls made are a beginning of
\* the calls the document asks for, and all of them once decoding is Ok.
C4_DispatchOrdering ==
    HeaderIsRegular(shape) /\ RecordsAreRegular(shape.recs) =>
        /\ IsPrefix(slice_calls, ExpectedCalls(shape.recs))
        /\ IsPrefix(reader_calls, ExpectedCalls(shape.recs))
        /\ slice_result = Ok => slice_calls = ExpectedCalls(shape.recs)
        /\ reader_result = Ok => reader_calls = ExpectedCalls(shape.recs)

C4_Witness ==
    /\ Done
    /\ ValidDocument(shape)
    /\ rejected = {}
    /\ Len(shape.recs) = 3
    /\ shape.recs[1] = DefB
    /\ shape.recs[2].t = "data"
    /\ shape.recs[3].t = "data"
    /\ shape.recs[2] # shape.recs[3]
    /\ slice_result = Ok
    /\ reader_result = Ok
    /\ Len(slice_calls) >= 9
    /\ slice_calls[1] = <<"add_record", 276>>

\* C5.  CRC integrity: the last two bytes of the document, read as a
\* little-endian u16, are to equal the CRC accumulated from 0 over the
\* header and the records before them; a document that decodes to Ok,
\* with these two bytes replaced by another value, makes both drivers
\* return CyclicRedundancyCheck with found the replaced bytes and
\* calculated the accumulated CRC.
C5_CrcIntegrity ==
    Done /\ HeaderIsRegular(shape) /\ RecordsAreRegular(shape.recs)
         /\ shape.extra = <<>> /\ shape.cut = None =>
        LET n == Len(input)
            found == input[n - 1] + 256 * input[n]
            calculated == compute_crc(0, SubSeq(input, 1, n - 2))
            expected == IF found = calculated THEN Ok
                        ELSE <<"CyclicRedundancyCheck", found, calculated>>
        IN  /\ found = calculated <=> shape.crc_xor = 0
            /\ slice_result = expected
            /\ reader_result = expected

C5_Witness ==
    /\ Done
    /\ RecordsAreRegular(shape.recs)
    /\ shape.crc_xor = 257
    /\ shape.recs # <<>>
    /\ slice_result # <<>>
    /\ slice_result[1] = "CyclicRedundancyCheck"
    /\ reader_result = slice_result
    /\ reader_calls # <<>>

\* C6.  A slot without definition, as stated: a data record for a slot
\* that no definition record has set is decoded as a record without
\* fields: no field value is dispatched for it and decoding does not
\* fail, in the slice driver (offset 0 in the table) and in the reader
\* driver (empty buffer).
C6_UnsetSlotIsEmpty ==
    Done /\ Unaltered(shape)
         /\ (\A n \in 1..Len(shape.recs) : shape.recs[n].t # "raw")
         /\ (\E n \in 1..Len(shape.recs) :
                /\ shape.recs[n].t = "data"
                /\ Governing(shape.recs, n - 1)[shape.recs[n].local] = Unset)
         =>
        /\ slice_result = Ok
        /\ reader_result = Ok
        /\ ValueCalls(slice_calls) = ExpectedValues(shape.recs)
        /\ ValueCalls(reader_calls) = ExpectedValues(shape.recs)

\* C7.  Unknown base types, as stated: a field descriptor whose base type
\* byte is none of the 17 codes, when a data record is decoded with it,
\* ends decoding with an error returned to the caller, not with a panic
\* and not with a field of some other type.
C7_UnknownBaseTypeIsError ==
    Done /\ Unaltered(shape) /\ Len(shape.recs) = 2
         /\ shape.recs[1].t = "def" /\ shape.recs[2].t = "data"
         /\ shape.recs[1].local = shape.recs[2].local
         /\ Len(shape.recs[1].fields) = 1
         /\ shape.recs[1].fields[1].base \notin BaseTypeCodes =>
        /\ IsError(slice_result)
        /\ IsError(reader_result)

\* C8.  Document header validation: DocumentHeader::advance returns
\* NotFitData whenever bytes 8..12 are not ".FIT", whatever the length
\* byte; else UnknownHeaderLength(n) whenever byte 0 is an n other than 12
\* and 14; else the data size (bytes 4..8, little-endian) with successor
\* ExtendedDocumentHeader for 14 and RecordHeader for 12.  Both drivers
\* return the errors as Header(..) and make no call on the receiver.
C8_HeaderValidation ==
    Len(input) >= 12 =>
        LET h == DocumentHeader_advance(Get(input, 0, 12))
            n == input[1]
            refused == IF Get(input, 8, 12) # FitSignature
                       THEN <<"NotFitData">>
                       ELSE IF n \notin {12, 14}
                       THEN <<"UnknownHeaderLength", n>>
                       ELSE <<>>
        IN  /\ h.err = refused
            /\ refused = <<>> =>
                 /\ h.size = input[5] + 256 * input[6] + 65536 * input[7]
                             + 16777216 * input[8]
                 /\ h.successor.kind = IF n = 14
                                       THEN "ExtendedDocumentHeader"
                                       ELSE "RecordHeader"
            /\ Done /\ refused # <<>> =>
                 /\ slice_result = <<"Header">> \o refused
                 /\ reader_result = <<"Header">> \o refused
                 /\ slice_calls = <<>>
                 /\ reader_calls = <<>>
            /\ Done /\ refused = <<>> =>
                 /\ slice_result[1] # "Header"
                 /\ reader_result[1] # "Header"

C8_Witness ==
    /\ Done
    /\ shape.header_size = 13
    /\ shape.signature = <<46, 102, 73, 84>>
    /\ slice_result = <<"Header", "NotFitData">>
    /\ reader_result = <<"Header", "NotFitData">>

\* C9.  Developer data is refused: a record header byte with bit 7 clear
\* and bit 5 set, whatever bit 6 is, makes RecordHeader::advance return
\* DeveloperData, and both drivers return Developer without dispatching
\* that record; a byte with bit 7 set never gives this error, bits 5 and 6
\* being the local index then.
C9_DeveloperDataRefused ==
    /\ slice_pc = "start" =>
         \A b \in Byte :
            RecordHeader_advance(RecordHeaderToken, <<b>>).err
            = IF b < 128 /\ (b \div 32) % 2 = 1
              THEN <<"DeveloperData">> ELSE <<>>
    /\ Done /\ Unaltered(shape) /\ FirstRaw(shape.recs) # 0
            /\ RecordsAreRegular(
                   SubSeq(shape.recs, 1, FirstRaw(shape.recs) - 1)) =>
         LET before == SubSeq(shape.recs, 1, FirstRaw(shape.recs) - 1)
         IN  /\ slice_result = <<"Developer">>
             /\ reader_result = <<"Developer">>
             /\ slice_calls = ExpectedCalls(before)
             /\ reader_calls = ExpectedCalls(before)

C9_Witness ==
    /\ Done
    /\ Unaltered(shape)
    /\ rejected = {}
    /\ shape.recs = <<DefB, Data(1, Some(10), <<"m", "v", "w">>), Raw(96)>>
    /\ slice_result = <<"Developer">>
    /\ reader_result = <<"Developer">>
    /\ Len(slice_calls) = 4
    /\ slice_calls[2] = <<"add_time_offset", 10>>

\* C10.  Redefinition overwrites the slot: a data record with local index
\* l is decoded with the layout (field count, field numbers, sizes, base
\* types, byte order, global message number) of the last definition
\* record for l before it; definitions for other local indexes leave slot
\* l as it is.  After k records the slice driver holds, for every slot,
\* the offset of that definition and the reader driver its bytes.
C10_RedefinitionOverwrites ==
    ValidDocument(shape) =>
        /\ slice_pc = "loop" =>
             \E k \in 0..Len(shape.recs) :
                /\ slice_i = Consumed(shape, k)
                /\ \A l \in Slots :
                     definition_table[l]
                     = IF LatestDefinition(shape.recs, k, l) = 0 THEN 0
                       ELSE Consumed(
                                shape,
                                LatestDefinition(shape.recs, k, l) - 1) + 1
        /\ reader_pc = "loop" =>
             \E k \in 0..Len(shape.recs) :
                /\ reader_i = Consumed(shape, k)
                /\ \A l \in Slots :
                     definitions[l]
                     = IF LatestDefinition(shape.recs, k, l) = 0 THEN <<>>
                       ELSE Tail(EncodeDefinition(
                                shape.recs[
                                    LatestDefinition(shape.recs, k, l)]))
        /\ Done =>
             /\ slice_calls = ExpectedCalls(shape.recs)
             /\ reader_calls = ExpectedCalls(shape.recs)

C10_Witness ==
    /\ Done
    /\ ValidDocument(shape)
    /\ rejected = {}
    /\ shape.recs = <<DefC, DefB, Data(1, None, <<"v">>)>>
    /\ slice_result = Ok
    /\ reader_result = Ok
    /\ Len(slice_calls) = 6
    /\ slice_calls[1] = <<"add_record", 276>>
    /\ definitions[1] = Tail(EncodeDefinition(DefB))

\* The data records of a document whose message the receiver rejects.
Discarded(recs) ==
    {n \in 1..Len(recs) :
        /\ recs[n].t = "data"
        /\ Governing(recs, n - 1)[recs[n].local] # Unset
        /\ Governing(recs, n - 1)[recs[n].local].global \in rejected}

\* C11.  Discarded records are still framed: when add_record returns None
\* for a data record, no add_time_offset and no add_* call is made for it,
\* yet the cursor i, and in the reader driver the rolling CRC c, advance as
\* they would had add_record returned Some, so that the later records are
\* decoded alike.  So between records the cursor is at the end of a
\* record, and c is the CRC of the bytes before it, whatever the receiver
\* rejects; and the calls are those of the records that are not discarded.
C11_DiscardedRecordsAreFramed ==
    ValidDocument(shape) /\ Discarded(shape.recs) # {} =>
        /\ slice_pc = "loop" =>
             \E k \in 0..Len(shape.recs) : slice_i = Consumed(shape, k)
        /\ reader_pc = "loop" =>
             /\ \E k \in 0..Len(shape.recs) : reader_i = Consumed(shape, k)
             /\ reader_pos = reader_i
             /\ reader_c = compute_crc(0, Get(input, 0, reader_i))
        /\ Done =>
             /\ slice_result = Ok
             /\ reader_result = Ok
             /\ slice_i = Consumed(shape, Len(shape.recs))
             /\ reader_i = Consumed(shape, Len(shape.recs))
             /\ \A calls \in {slice_calls, reader_calls} :
                  /\ calls = ExpectedCalls(shape.recs)
                  /\ \A k \in 1..Len(calls) :
                       calls[k][1] = "add_record" /\ calls[k][2] \in rejected
                       => k = Len(calls) \/ calls[k + 1][1] = "add_record"

C11_Witness ==
    /\ Done
    /\ rejected = {276}
    /\ shape.header_size = 12
    /\ shape.recs = <<DefA, DefB, Data(1, Some(10), <<"m", "v", "w">>),
                      Data(0, None, <<"v", "m">>)>>
    /\ slice_result = Ok
    /\ reader_result = Ok
    /\ slice_calls = <<<<"add_record", 276>>, <<"add_record", 20>>,
                       <<"add_u8", 0, <<17>>>>>>
    /\ reader_calls = slice_calls

IsFramingCall(call) == call[1] \in {"add_record", "add_time_offset"}

\* C12.  Compressed timestamp headers: for a record header byte with bit 7
\* set the local index is bits 5 and 6 (0..3) and the time offset bits 0
\* to 4 (0..31); the drivers call add_time_offset(offset) exactly once for
\* that record, after add_record and before any field value of it, and
\* only if add_record returned a receiver; for a normal data header
\* add_time_offset is never called.
C12_CompressedTimestamp ==
    /\ slice_pc = "start" =>
         \A b \in 128..255 :
            LET h == RecordHeader_advance(RecordHeaderToken, <<b>>)
            IN  /\ h.err = <<>>
                /\ h.local = (b \div 32) % 4
                /\ h.time = Some(b % 32)
                /\ h.successor.kind = "DefinitionAlt"
    /\ slice_pc = "start" =>
         \A b \in 0..15 :
            LET h == RecordHeader_advance(RecordHeaderToken, <<b>>)
            IN  h.err = <<>> /\ h.local = b /\ h.time = None
    /\ Done /\ ValidDocument(shape) =>
         \A calls \in {slice_calls, reader_calls} :
            /\ SelectSeq(calls, IsFramingCall)
               = Flatten([n \in 1..Len(shape.recs) |->
                    IF shape.recs[n].t # "data" THEN <<>>
                    ELSE LET g == Governing(shape.recs,
                                            n - 1)[shape.recs[n].local].global
                         IN  <<<<"add_record", g>>>>
                             \o (IF shape.recs[n].time = None
                                    \/ g \in rejected
                                 THEN <<>>
                                 ELSE <<<<"add_time_offset",
                                          shape.recs[n].time[1]>>>>)])
            /\ \A k \in 1..Len(calls) :
                  calls[k][1] = "add_time_offset" =>
                      k > 1 /\ calls[k - 1][1] = "add_record"

C12_Witness ==
    /\ Done
    /\ rejected = {}
    /\ shape.header_size = 14
    /\ shape.recs = <<Def(3, 0, 20, <<Fd(0, 1, 0)>>),
                      Data(3, Some(0), <<"v">>), Data(3, None, <<"v">>),
                      Data(3, Some(31), <<"m">>)>>
    /\ input[24] = 224
    /\ input[28] = 255
    /\ reader_result = Ok
    /\ slice_calls = <<<<"add_record", 20>>, <<"add_time_offset", 0>>,
                       <<"add_u8", 0, <<17>>>>,
                       <<"add_record", 20>>, <<"add_u8", 0, <<17>>>>,
                       <<"add_record", 20>>, <<"add_time_offset", 31>>>>
    /\ reader_calls = slice_calls

\* The same document with every definition in the other byte order.
Mirror(sh) ==
    [sh EXCEPT !.recs =
        [n \in 1..Len(sh.recs) |->
            IF sh.recs[n].t = "def"
            THEN [sh.recs[n] EXCEPT !.arch = 1 - @]
            ELSE sh.recs[n]]]

TwoByteOrders(sh) ==
    \A n \in 1..Len(sh.recs) :
        sh.recs[n].t = "def" => sh.recs[n].arch \in {0, 1}

\* C13.  Endianness symmetry: a document whose global message numbers and
\* multi-byte field values are written big-endian with architecture byte 1
\* dispatches the same add_record ids and the same field values as the
\* document of the same content written little-endian with architecture
\* byte 0; every multi-byte read of a data record is in the byte order of
\* the definition that governs it.
C13_EndiannessSymmetry ==
    Done /\ ValidDocument(shape) /\ TwoByteOrders(shape) =>
        /\ slice_decode(Encode(Mirror(shape)))
           = [res |-> slice_result, calls |-> slice_calls]
        /\ reader_decode(Encode(Mirror(shape)))
           = [res |-> reader_result, calls |-> reader_calls]

C13_Witness ==
    /\ Done
    /\ rejected = {}
    /\ shape = Plain(12, <<DefB, Data(1, None, <<"v">>)>>)
    /\ Encode(Mirror(shape)) # input
    /\ slice_result = Ok
    /\ reader_result = Ok
    /\ slice_calls = <<<<"add_record", 276>>, <<"add_u16", 3, <<17, 18>>>>,
                       <<"add_u16", 3, <<33, 34>>>>, <<"add_u8", 5, <<49>>>>,
                       <<"add_u8", 5, <<65>>>>, <<"add_u8", 5, <<81>>>>>>
    /\ reader_calls = slice_calls

IsRecordCall(call) == call[1] = "add_record"

\* The add_record calls the first k records ask for.
RecordIds(recs, k) ==
    Flatten([n \in 1..k |->
        IF recs[n].t # "data" THEN <<>>
        ELSE <<<<"add_record",
                 Governing(recs, n - 1)[recs[n].local].global>>>>])

\* C14.  One add_record per data record: every data record gives exactly
\* one call add_record(g), g the global message number of its governing
\* definition read in the byte order of that definition, also when the
\* definition has no fields; definition records, the document header and
\* the CRC at the end give no call.  So whenever a driver stands between
\* records, or has returned Ok, the add_record calls made are those of the
\* data records it has passed, and all calls are calls of these records.
C14_OneAddRecordPerDataRecord ==
    ValidDocument(shape) =>
        /\ slice_pc = "start" => slice_calls = <<>>
        /\ reader_pc \in {"wait", "start"} => reader_calls = <<>>
        /\ slice_pc = "loop" \/ slice_result = Ok =>
             \E k \in 0..Len(shape.recs) :
                /\ slice_i = Consumed(shape, k)
                /\ SelectSeq(slice_calls, IsRecordCall)
                   = RecordIds(shape.recs, k)
                /\ slice_calls = ExpectedCalls(SubSeq(shape.recs, 1, k))
        /\ reader_pc = "loop" \/ reader_result = Ok =>
             \E k \in 0..Len(shape.recs) :
                /\ reader_i = Consumed(shape, k)
                /\ SelectSeq(reader_calls, IsRecordCall)
                   = RecordIds(shape.recs, k)
                /\ reader_calls = ExpectedCalls(SubSeq(shape.recs, 1, k))

C14_Witness ==
    /\ Done
    /\ rejected = {}
    /\ shape = Plain(14, <<DefB, DefC, Data(1, Some(10), <<"m", "v", "w">>)>>)
    /\ slice_result = Ok
    /\ reader_result = Ok
    /\ slice_calls = <<<<"add_record", 0>>, <<"add_time_offset", 10>>>>
    /\ reader_calls = slice_calls

\* C15.  Empty document: a document whose header declares data_size 0
\* and whose last two bytes are the CRC of the header bytes decodes to
\* Ok(()) with no call on the receiver in both drivers, for a header of 12
\* bytes and for one of 14, where the CRC covers all 14 bytes.
C15_EmptyDocument ==
    Done /\ Len(input) >= 14
         /\ input[1] \in {12, 14}
         /\ Len(input) = input[1] + 2
         /\ Get(input, 4, 8) = <<0, 0, 0, 0>>
         /\ Get(input, 8, 12) = FitSignature
         /\ input[Len(input) - 1] + 256 * input[Len(input)]
            = compute_crc(0, Get(input, 0, input[1])) =>
        /\ slice_result = Ok
        /\ reader_result = Ok
        /\ slice_calls = <<>>
        /\ reader_calls = <<>>
        /\ slice_i = input[1]
        /\ reader_i = input[1]
        /\ reader_pos = Len(input)

C15_Witness ==
    /\ Done
    /\ input = <<14, 16, 100, 0, 0, 0, 0, 0, 46, 70, 73, 84, 216, 41>>
               \o LE16(compute_crc(0, Get(input, 0, 14)))
    /\ slice_result = Ok
    /\ reader_result = Ok
    /\ slice_calls = <<>>
    /\ reader_calls = <<>>

\* The listed type of each code.
ListedType(code) ==
    CASE code \in {0, 2, 13} -> "U8"
      [] code \in {7, 10} -> "U8Z"
      [] code = 1 -> "I8"
      [] code = 131 -> "I16"
      [] code = 132 -> "U16"
      [] code = 133 -> "I32"
      [] code = 134 -> "U32"
      [] code = 136 -> "F32"
      [] code = 137 -> "F64"
      [] code = 139 -> "U16Z"
      [] code = 140 -> "U32Z"
      [] code = 142 -> "I64"
      [] code = 143 -> "U64"
      [] code = 144 -> "U64Z"

\* C16.  Base type code table: DefinitionFieldAlt::advance maps each of
\* the 17 listed codes to the Field token of the listed type, with its
\* width and invalid marker: 0x00, 0x02, 0x0D to u8 (marker 0xFF); 0x07,
\* 0x0A to u8z (marker 0); 0x01 i8; 0x83 i16; 0x84 u16; 0x85 i32; 0x86
\* u32; 0x88 f32; 0x89 f64; 0x8B u16z; 0x8C u32z; 0x8E i64; 0x8F u64; 0x90
\* u64z; and it returns the first byte of the descriptor as the field
\* number.
C16_BaseTypeTable ==
    /\ Cardinality(BaseTypeCodes) = 17
    /\ slice_pc = "start" /\ shape.recs = <<>> =>
         \A code \in BaseTypeCodes, f \in {0, 7, 253, 255},
            size \in {1, 8, 255}, le \in BOOLEAN, more \in {1, 2, 255} :
            LET a == DefinitionFieldAlt_advance(
                         [kind |-> "DefinitionFieldAlt",
                          fields_remaining |-> more,
                          is_little_endian |-> le],
                         <<f, size, code>>)
            IN  /\ ~a.unreachable
                /\ ~a.underflow
                /\ a.field = f
                /\ a.successor
                   = [kind |-> "Field", base |-> ListedType(code),
                      fields_remaining |-> more - 1,
                      bytes_remaining |-> size, is_little_endian |-> le]
                /\ SizeOf(a.successor.base) = WidthOfCode(code)
                /\ Invalid(a.successor.base) = MarkerOfCode(code)
                /\ AddOf(a.successor.base) = MethodOfCode(code)
    /\ Done /\ ValidDocument(shape) /\ Len(shape.recs) = 2
            /\ shape.recs[1].t = "def" /\ shape.recs[1].fields # <<>>
            /\ rejected = {} =>
         \A calls \in {slice_calls, reader_calls} :
            \A k \in 1..Len(calls) :
               IsValueCall(calls[k])
               /\ calls[k][2] = shape.recs[1].fields[1].num =>
                  /\ calls[k][1]
                     = MethodOfCode(shape.recs[1].fields[1].base)
                  /\ Len(calls[k][3])
                     = WidthOfCode(shape.recs[1].fields[1].base)

C16_Witness ==
    /\ Done
    /\ rejected = {}
    /\ Len(shape.recs) = 2
    /\ shape.recs[1].t = "def"
    /\ shape.recs[1].arch = 1
    /\ shape.recs[1].fields = <<Fd(7, 2, 13)>>
    /\ shape.recs[2].t = "data"
    /\ shape.recs[2].pat = <<"w", "v">>
    /\ slice_result = Ok
    /\ slice_calls = <<<<"add_record", 276>>, <<"add_u8", 7, <<33>>>>>>
    /\ reader_calls = slice_calls

---------------------------------------------------------------------------
(* The check value, worked out a second time from the published routine.   *)

\* Exclusive or of two 16-bit numbers, bit by bit.
BitXor(a, b) ==
    LET Bit2(x, n) == (x \div (2 ^ n)) % 2
        RECURSIVE Sum(_)
        Sum(n) ==
            IF n < 0 THEN 0
            ELSE ((Bit2(a, n) + Bit2(b, n)) % 2) * (2 ^ n) + Sum(n - 1)
    IN  Sum(15)

SpecTable ==
    <<0, 52225, 55297, 5120, 61441, 15360, 10240, 58369,
      40961, 27648, 30720, 46081, 20480, 39937, 34817, 17408>>

\* tmp = T[crc & 0xF]; crc = (crc >> 4) & 0x0FFF; crc ^= tmp ^ T[nibble]
HalfStep(crc, nibble) ==
    BitXor((crc \div 16) % 4096,
           BitXor(SpecTable[(crc % 16) + 1], SpecTable[nibble + 1]))

\* The low half of the byte, then the high half.
SpecCrc(crc, byte) == HalfStep(HalfStep(crc, byte % 16), byte \div 16)

\* The left fold over the first n bytes of B.
RECURSIVE SpecFold(_, _, _)
SpecFold(init, B, n) ==
    IF n = 0 THEN init ELSE SpecCrc(SpecFold(init, B, n - 1), B[n])

\* C17: whatever accumulator and bytes compute_crc is given, each byte is
\* taken in by the two half-byte table steps, low half first, the
\* accumulator stays within 16 bits, and compute_crc is the left fold of
\* the per-byte step from init, so that folding nothing returns init.
C17_CrcAccumulator ==
    /\ CRC_TABLE = SpecTable
    /\ fold_acc \in 0..65535
    /\ fold_acc = SpecFold(fold_init, fold_r, fold_k - 1)
    /\ compute_crc(fold_init, SubSeq(fold_r, 1, fold_k - 1)) = fold_acc
    /\ compute_crc(fold_init, <<>>) = fold_init
    /\ fold_k = Len(fold_r) + 1 => compute_crc(fold_init, fold_r) = fold_acc

C17_Witness ==
    /\ fold_init = 0
    /\ fold_r = FitSignature
    /\ fold_k = 5
    /\ fold_acc = 37598

---------------------------------------------------------------------------
(* The tokens in the hands of a caller.                                    *)

\* C18 as stated: every call of advance takes its token by value, no token
\* type can be copied or cloned, no owned token has been advanced before,
\* and every owned token other than a DocumentHeader was returned by an
\* advance.
C18_EveryAdvanceTakesItsToken ==
    /\ \A n \in 1..Len(kernel_log) : kernel_log[n].took
    /\ \A kind \in TokenKinds : ~Duplicable(kind)
    /\ \A t \in BagToSet(kernel_tokens) :
          /\ t.uses = 0
          /\ t.tok.kind # "DocumentHeader" => t.origin = "advance"

\* C18: every token other than DocumentHeader is taken by value by its
\* advance and is gone from the caller's hands afterwards, no token type
\* can be copied or cloned, and only DocumentHeader can be built by a
\* caller: every other owned token was returned by an advance.
\* DocumentHeader::advance takes the bytes alone and no token.
C18_TokenLinearity ==
    /\ \A n \in 1..Len(kernel_log) :
          kernel_log[n].took = (kernel_log[n].state # <<"DocumentHeader">>)
    /\ \A kind \in TokenKinds :
          /\ ~Duplicable(kind)
          /\ Constructible(kind) = (kind = "DocumentHeader")
          /\ kind # "DocumentHeader" => AdvanceReceiver(kind) = "self"
    /\ \A t \in BagToSet(kernel_tokens) :
          /\ t.uses = 0
          /\ t.tok.kind # "DocumentHeader" => t.origin = "advance"

C18_Witness ==
    /\ Len(kernel_log) = 2
    /\ kernel_log[1].state = <<"DocumentHeader">>
    /\ ~kernel_log[1].took
    /\ kernel_log[2].state = <<"RecordHeader">>
    /\ kernel_log[2].took
    /\ kernel_tokens = SetToBag({Own([kind |-> "Definition"], "advance")})

\* The kinds of successor the calls made on tokens of one kind returned.
SuccessorsSeen(state) ==
    {kernel_log[n].successor[1] :
        n \in {m \in 1..Len(kernel_log) :
                 /\ kernel_log[m].state = state
                 /\ kernel_log[m].successor # None}}

FieldBases ==
    {"U8", "U8Z", "U16", "U16Z", "U32", "U32Z", "U64", "U64Z",
     "I8", "I16", "I32", "I64", "F32", "F64"}

\* The successors the return type of each advance allows.
ReturnedKinds(state) ==
    CASE state = <<"DocumentHeader">> ->
            {<<"ExtendedDocumentHeader">>, <<"RecordHeader">>}
      [] state = <<"ExtendedDocumentHeader">> -> {<<"RecordHeader">>}
      [] state = <<"RecordHeader">> ->
            {<<"Definition">>, <<"DefinitionAlt">>}
      [] state = <<"Definition">> ->
            {<<"DefinitionField">>, <<"RecordHeader">>}
      [] state = <<"DefinitionField">> ->
            {<<"DefinitionField">>, <<"RecordHeader">>}
      [] state = <<"DefinitionAlt">> ->
            {<<"DefinitionFieldAlt">>, <<"RecordHeader">>}
      [] state = <<"DefinitionFieldAlt">> ->
            {<<"Field", base>> : base \in FieldBases}
      [] OTHER -> {<<"DefinitionFieldAlt">>, <<"RecordHeader">>, state}

\* C19 as stated: the calls of advance on tokens of one kind return at
\* most two kinds of successor.
C19_AtMostTwoSuccessors ==
    \A n \in 1..Len(kernel_log) :
        Cardinality(SuccessorsSeen(kernel_log[n].state)) <= 2

\* C19: the calls of advance on tokens of one kind return only the kinds
\* its return type names: at most two, but for Field<T>, which returns
\* Field<T>, DefinitionFieldAlt or RecordHeader, and DefinitionFieldAlt,
\* which returns one of the fourteen Field<T>.
C19_SuccessorKinds ==
    \A n \in 1..Len(kernel_log) :
        /\ SuccessorsSeen(kernel_log[n].state)
              \subseteq ReturnedKinds(kernel_log[n].state)
        /\ Cardinality(ReturnedKinds(kernel_log[n].state)) =
              CASE kernel_log[n].state[1] = "Field" -> 3
                [] kernel_log[n].state[1] = "DefinitionFieldAlt" -> 14
                [] kernel_log[n].state[1] = "ExtendedDocumentHeader" -> 1
                [] OTHER -> 2

C19_Witness ==
    /\ Len(kernel_log) = MaxCalls
    /\ SuccessorsSeen(<<"Field", "U8">>) =
          {<<"Field", "U8">>, <<"DefinitionFieldAlt">>, <<"RecordHeader">>}

---------------------------------------------------------------------------
(* What deriving FromRecord accepts.                                       *)

\* Two annotated fields carry the same identifier: the same number,
\* whatever their types, or time twice.
SameIdentifier(fields) ==
    \E m, n \in 1..Len(fields) :
        /\ m < n
        /\ fields[m].attr # None
        /\ fields[m].attr = fields[n].attr

\* C20: deriving FromRecord on a struct in which two annotated fields
\* carry the same field number, whatever their primitive types, or in
\* which two fields are annotated field(time), ends in the error "Field
\* identifiers must be unique.".
C20_DuplicateIdentifiersRejected ==
    derive_pc = "done" /\ SameIdentifier(derive_input) =>
        derive_result = NotUnique


----------------------------------------------------------------------------
(* C21: derived FromRecords.  After any sequence of add_record calls, a    *)
(* field annotated record(N) with a Vec type holds one element for each    *)
(* add_record(N) so far and the receiver returned by the latest of them    *)
(* is the element just pushed, still Default; a field annotated record(N)  *)
(* with an Option type holds an element once add_record(N) has been called *)
(* and the receiver returned is that element, reset to Default; and        *)
(* add_record(id) for an id no field is annotated with returns None and    *)
(* adds nothing.                                                           *)

CallsWith(id) ==
    Cardinality({k \in 1..Len(records_calls) : records_calls[k] = id})

Annotated(n) == records_input[n].attr # None

LatestCall == records_calls[Len(records_calls)]

C21_DerivedFromRecords ==
    records_pc = "ready" =>
        /\ \A n \in 1..Len(records_input) :
               Annotated(n) =>
                   LET number == records_input[n].attr[1]
                       held == records_self[n]
                   IN  /\ records_input[n].ty = "Vec" =>
                               Len(held) = CallsWith(number)
                       /\ records_input[n].ty = "Option" =>
                               Len(held) = IF CallsWith(number) > 0
                                           THEN 1 ELSE 0
        /\ records_calls # <<>> =>
               IF \E n \in 1..Len(records_input) :
                      records_input[n].attr = Some(LatestCall)
               THEN /\ records_returned # None
                    /\ records_input[records_returned[1].name].attr
                           = Some(LatestCall)
                    /\ records_returned[1].at
                           = Len(records_self[records_returned[1].name])
                    /\ ~records_returned[1].used =>
                           records_self[records_returned[1].name]
                                       [records_returned[1].at] = Default
               ELSE records_returned = None

\* The same for structs whose record numbers are all different.
DistinctRecordNumbers ==
    \A m, n \in 1..Len(records_input) :
        (Annotated(m) /\ records_input[m].attr = records_input[n].attr)
            => m = n

C21_Distinct == DistinctRecordNumbers => C21_DerivedFromRecords

C21_WitnessDistinct ==
    /\ records_pc = "ready"
    /\ DistinctRecordNumbers
    /\ \E n \in 1..Len(records_input) :
           /\ records_input[n].ty = "Vec"
           /\ Annotated(n)
           /\ Len(records_self[n]) = 2
           /\ records_self[n][1] = Given
    /\ Len(records_calls) = 3


----------------------------------------------------------------------------
(* C22: derived FromRecord, plain field.  For a field annotated field(N)   *)
(* of type Option<T>, after any sequence of calls of the add methods the   *)
(* field is Some(v) for the value v of the latest add_T(N, v), and None    *)
(* when there was none: calls with another number, or with N through the   *)
(* add method of another primitive, do not touch it; a field without an    *)
(* annotation stays None.                                                   *)

IsPlain(field) == field.attr # None /\ "handler" \notin DOMAIN field

CallsFor(primitive, number) ==
    {k \in 1..Len(record_calls) :
        record_calls[k][1] = primitive /\ record_calls[k][2] = number}

LastReceived(primitive, number) ==
    IF CallsFor(primitive, number) = {} THEN None
    ELSE Some(record_calls[CHOOSE k \in CallsFor(primitive, number) :
                  \A j \in CallsFor(primitive, number) : j <= k][3])

C22_PlainFieldHoldsLast ==
    (derive_pc = "done" /\ derive_result[1] = "Ok") =>
        \A n \in 1..Len(derive_input) :
            /\ IsPlain(derive_input[n]) =>
                   record_self[n] = LastReceived(derive_input[n].ty,
                                                 derive_input[n].attr[2])
            /\ derive_input[n].attr = None => record_self[n] = None

\* A field(5) Option<u8> next to a field(6) Option<u16> has received 1 and
\* then 2 is offered for 5 as a u16: the field still holds 1.
C22_Witness ==
    /\ derive_pc = "done"
    /\ derive_result[1] = "Ok"
    /\ Len(derive_input) = 2
    /\ IsPlain(derive_input[1])
    /\ derive_input[1].ty = "u8"
    /\ derive_input[1].attr = <<"Number", 5>>
    /\ record_calls = << <<"u8", 5, 1>>, <<"u16", 5, 2>> >>
    /\ record_self[1] = Some(1)


----------------------------------------------------------------------------
(* C23: derive correctness for accumulators.  For a struct whose fields    *)
(* are annotated field(N, closure) with different N, the closure a         *)
(* pushing one, a receiver of that struct given the calls either driver    *)
(* makes for a valid document ends up holding, in each field, exactly the  *)
(* elements the document carries for field N in the closure's primitive    *)
(* that are not the invalid marker, in stream order: the closure was       *)
(* called once for each of them and for no marker.                         *)

\* The elements of the accepted data records, markers included, as calls.
AllElements(recs) ==
    Flatten([n \in 1..Len(recs) |->
        IF recs[n].t = "data"
           /\ Governing(recs, n - 1)[recs[n].local] # Unset
           /\ Governing(recs, n - 1)[recs[n].local].global \in rejected
        THEN <<>>
        ELSE LET es == ElementsOf(recs, n)
             IN  [k \in 1..Len(es) |->
                    <<MethodOfCode(es[k].base), es[k].field, es[k].value>>]])

\* Of calls, the values for one field through one method.
ValuesFor(calls, primitive, number) ==
    LET kept == SelectSeq(calls,
                    LAMBDA c : /\ IsValueCall(c)
                               /\ PrimitiveOfMethod(c[1]) = primitive
                               /\ c[2] = number)
    IN  [k \in 1..Len(kept) |-> kept[k][3]]

Accumulated(fields, calls) ==
    Replay(expand_from_record(fields)[2], StructDefault(fields), calls, 1)

----------------------------------------------------------------------------
(* C24: the slice driver checks the CRC eagerly.  Whenever decode_slice    *)
(* returns CyclicRedundancyCheck it has made no call on the receiver; and  *)
(* for a document of regular records whose stored check value is wrong it  *)
(* does return CyclicRedundancyCheck, while decode_reader returns it only  *)
(* after the record loop, having made every call the records ask for.      *)
C24_SliceChecksEagerly ==
    /\ (slice_result # <<>> /\ slice_result[1] = "CyclicRedundancyCheck")
           => slice_calls = <<>>
    /\ Done /\ HeaderIsRegular(shape) /\ RecordsAreRegular(shape.recs)
            /\ shape.extra = <<>> /\ shape.cut = None /\ shape.crc_xor # 0
        => /\ slice_result[1] = "CyclicRedundancyCheck"
           /\ slice_calls = <<>>
           /\ reader_result = slice_result
           /\ reader_calls = ExpectedCalls(shape.recs)

C24_Witness ==
    /\ Done
    /\ RecordsAreRegular(shape.recs)
    /\ shape.crc_xor = 1
    /\ slice_result[1] = "CyclicRedundancyCheck"
    /\ slice_calls = <<>>
    /\ Len(reader_calls) >= 3
    /\ \E k \in 1..Len(reader_calls) : IsValueCall(reader_calls[k])


----------------------------------------------------------------------------
(* C25: the place of the CRC in the slice driver, as stated.  For a slice  *)
(* at least end + 2 bytes long, end the header length plus data_size,      *)
(* decode_slice reads the stored check value from the two bytes at end     *)
(* and no further: a document followed by more bytes gives the result and  *)
(* the calls of the document alone.                                        *)
C25_TrailingBytesIgnored ==
    Done /\ shape.extra # <<>> /\ shape.cut = None
         /\ HeaderIsRegular(shape) /\ RecordsAreRegular(shape.recs) =>
        LET alone == slice_decode(Encode([shape EXCEPT !.extra = <<>>]))
        IN  /\ Len(input) > slice_end + 2
            /\ slice_result = alone.res
            /\ slice_calls = alone.calls


----------------------------------------------------------------------------
(* C26: bytes are counted and accumulated once, in the reader driver.      *)
(* Between records the counter i is the number of bytes read from the      *)
(* stream, whatever was taken from captured definitions while data         *)
(* records were decoded; when decode has returned, c is the CRC of the     *)
(* first i bytes of the stream; and once the record loop has ended and     *)
(* the two bytes of the stored check value are read, i and c are still     *)
(* those of the bytes before them.                                         *)
C26_CountedOnce ==
    /\ reader_i <= Len(input)
    /\ reader_pc = "loop" => reader_pos = reader_i
    /\ reader_pc = "done" =>
          reader_c = compute_crc(0, SubSeq(input, 1, reader_i))
    /\ (reader_pc = "done"
        /\ (reader_result = Ok
            \/ reader_result[1] = "CyclicRedundancyCheck"))
           => /\ reader_pos = reader_i + 2
              /\ reader_i >= reader_end

\* Two data records of a definition with two fields have been decoded.
C26_Witness ==
    /\ reader_pc = "done"
    /\ reader_result = Ok
    /\ shape.recs = <<DefB, Data(1, None, <<"v">>),
                      Data(1, Some(10), <<"m", "v", "w">>)>>
    /\ reader_i = Len(input) - 2
    /\ Cardinality({k \in 1..Len(reader_calls) :
                       reader_calls[k][1] = "add_record"}) = 2


----------------------------------------------------------------------------
(* C27: captured definition buffers.  While the reader driver has decoded  *)
(* records without error, every slot of definitions is empty, when no      *)
(* definition record for the slot has been read, or holds exactly the      *)
(* body of the latest definition record for the slot: the five bytes and   *)
(* three for each field it declares, at most 770, with nothing of an       *)
(* earlier definition of the slot.                                         *)
ReaderWithoutError ==
    \/ reader_pc = "loop"
    \/ /\ reader_pc = "done"
       /\ (reader_result = Ok \/ reader_result[1] = "CyclicRedundancyCheck")

C27_CapturedDefinitions ==
    ReaderWithoutError =>
        /\ \A l \in Slots :
              definitions[l] # <<>> =>
                  /\ Len(definitions[l]) >= 5
                  /\ Len(definitions[l]) = 5 + 3 * definitions[l][5]
                  /\ Len(definitions[l]) <= 770
        /\ (HeaderIsRegular(shape) /\ shape.cut = None) =>
              \E k \in 0..Len(shape.recs) :
                 /\ reader_i = Consumed(shape, k)
                 /\ \A l \in Slots :
                      LET latest == LatestDefinition(shape.recs, k, l)
                          at == Consumed(shape, latest - 1) + 1
                      IN  IF latest = 0 THEN definitions[l] = <<>>
                          ELSE definitions[l]
                               = SubSeq(input, at + 1,
                                        at + 5 + 3 * Len(shape.recs[latest]
                                                             .fields))

\* A slot defined with two fields and then with none holds five bytes.
C27_Witness ==
    /\ reader_pc = "done"
    /\ reader_result = Ok
    /\ shape.cut = None
    /\ HeaderIsRegular(shape)
    /\ shape.recs = <<DefB, Data(1, None, <<"v">>), DefC>>
    /\ reader_i = Consumed(shape, 3)
    /\ Len(definitions[1]) = 5
    /\ definitions[0] = <<>>


----------------------------------------------------------------------------
(* C28: cursor alternation in a data record.  In a valid document, the     *)
(* decoding of a data record whose definition has n fields of sizes        *)
(* s1..sn moves the definition cursor by 5 + 3n and the data cursor i by   *)
(* 1 + s1 + .. + sn, and leaves the slice driver's table as it was; and    *)
(* each descriptor is read just before the bytes of its field: with the    *)
(* input ending m bytes into the fields, the definition cursor has passed  *)
(* the descriptors up to the field that byte belongs to, and no more.      *)

RECURSIVE SizesUpTo(_, _)
SizesUpTo(fields, q) ==
    IF q = 0 THEN 0 ELSE SizesUpTo(fields, q - 1) + fields[q].size

\* The field the byte at offset m of the fields' bytes belongs to.
FieldAt(fields, m) ==
    CHOOSE q \in 1..Len(fields) :
        SizesUpTo(fields, q - 1) <= m /\ m < SizesUpTo(fields, q)

\* The data record the driver at offset i is about to decode, if any.
DataRecordAt(i) ==
    {k \in 1..Len(shape.recs) :
        shape.recs[k].t = "data" /\ Consumed(shape, k - 1) = i}

C28_CursorAlternation ==
    ValidDocument(shape) =>
      /\ slice_pc = "loop" =>
           \A k \in DataRecordAt(slice_i) :
             LET fields == Governing(shape.recs, k - 1)
                               [shape.recs[k].local].fields
                 h == RecordHeader_advance(RecordHeaderToken,
                                           <<input[slice_i + 1]>>)
                 j == definition_table[h.local]
                 Whole(x, turn) ==
                     /\ x.res = Running
                     /\ x.j = j + 5 + 3 * Len(fields)
                     /\ x.i = slice_i + 1 + SizesUpTo(fields, Len(fields))
                     /\ turn.i = x.i
                     /\ turn.table = definition_table
                 Short(y, m) ==
                     /\ y.res = <<"EndOfSlice">>
                     /\ y.j = j + 5 + 3 * FieldAt(fields, m)
             IN  /\ Whole(slice_decode_data(h.successor, h.time, input,
                                            slice_i + 1, j, slice_calls),
                          slice_decode_record(input, slice_i,
                                              definition_table, slice_calls))
                 /\ \A m \in 0..(SizesUpTo(fields, Len(fields)) - 1) :
                      Short(slice_decode_data(
                                h.successor, h.time,
                                SubSeq(input, 1, slice_i + 1 + m),
                                slice_i + 1, j, slice_calls), m)
      /\ reader_pc = "loop" =>
           \A k \in DataRecordAt(reader_i) :
             LET fields == Governing(shape.recs, k - 1)
                               [shape.recs[k].local].fields
                 h == RecordHeader_advance(RecordHeaderToken,
                                           <<input[reader_i + 1]>>)
                 d == definitions[h.local]
                 Whole(x) ==
                     /\ x.res = Running
                     /\ Len(d) - Len(x.d) = 5 + 3 * Len(fields)
                     /\ x.i = reader_i + 1 + SizesUpTo(fields, Len(fields))
                     /\ x.p = x.i
                 Short(y, m) ==
                     /\ y.res = <<"Io">>
                     /\ Len(d) - Len(y.d) = 5 + 3 * FieldAt(fields, m)
             IN  /\ Whole(reader_decode_data(h.successor, h.time, input,
                                             reader_pos + 1, reader_i + 1,
                                             reader_c, d, reader_calls))
                 /\ \A m \in 0..(SizesUpTo(fields, Len(fields)) - 1) :
                      Short(reader_decode_data(
                                h.successor, h.time,
                                SubSeq(input, 1, reader_i + 1 + m),
                                reader_pos + 1, reader_i + 1, reader_c, d,
                                reader_calls), m)

\* Both drivers have decoded a data record of two fields, of 4 and 3
\* bytes, and stand before another.
C28_Witness ==
    /\ ValidDocument(shape)
    /\ shape.recs = <<DefB, Data(1, None, <<"v">>),
                      Data(1, Some(10), <<"m", "v", "w">>)>>
    /\ slice_pc = "done"
    /\ reader_pc = "loop"
    /\ reader_i = Consumed(shape, 2)
    /\ Consumed(shape, 2) = Consumed(shape, 1) + 8
    /\ DataRecordAt(reader_i) = {3}
    /\ Len(definitions[1]) = 11


----------------------------------------------------------------------------
(* C29: Field token transitions.  A Field token created for a descriptor   *)
(* whose size is a positive multiple of the width W of its base type is    *)
(* advanced exactly size / W times: after each call but the last the       *)
(* token is a Field of the same base, W bytes less remaining, with the     *)
(* fields_remaining and byte order it was created with, and the last call  *)
(* returns DefinitionFieldAlt with that fields_remaining and byte order    *)
(* when fields_remaining is not 0, RecordHeader when it is.                *)

DescriptorIsRegular ==
    /\ field_descriptor.r[2] > 0
    /\ field_descriptor.r[2] % WidthOfCode(field_descriptor.r[3]) = 0

C29_FieldTransitions ==
    (field_pc # "create" /\ field_descriptor # <<>> /\ DescriptorIsRegular)
    => LET size == field_descriptor.r[2]
           W == WidthOfCode(field_descriptor.r[3])
           from == field_descriptor.from
       IN  /\ field_pc \in {"drain", "done"}
           /\ field_pc = "drain" =>
                field_state =
                    [kind |-> "Field",
                     base |-> AnyFieldOf(field_descriptor.r[3]),
                     fields_remaining |-> from.fields_remaining - 1,
                     bytes_remaining |-> size - field_advances * W,
                     is_little_endian |-> from.is_little_endian]
                /\ field_advances < size \div W
           /\ field_pc = "done" =>
                /\ field_advances = size \div W
                /\ field_state =
                     IF from.fields_remaining - 1 # 0
                     THEN [kind |-> "DefinitionFieldAlt",
                           fields_remaining |-> from.fields_remaining - 1,
                           is_little_endian |-> from.is_little_endian]
                     ELSE RecordHeaderToken

\* An array of three u16 in a big-endian record with a field to follow has
\* been drained by three calls.
C29_Witness ==
    /\ field_pc = "done"
    /\ field_descriptor.r = <<3, 6, 132>>
    /\ field_descriptor.from.fields_remaining = 2
    /\ ~field_descriptor.from.is_little_endian
    /\ field_advances = 3
    /\ field_state.kind = "DefinitionFieldAlt"

----------------------------------------------------------------------------
(* C30: no counter underflow in the field loop, as stated.  Every Field    *)
(* token reached has bytes_remaining at least the width W of its base      *)
(* type, so that Field::advance never subtracts W from a smaller u8: also  *)
(* for a descriptor whose size is 0 or no multiple of W there is no panic  *)
(* and no wrap-around to a remaining count above the size.                 *)
C30_NoUnderflow ==
    /\ field_pc # "panic"
    /\ (field_pc = "drain") =>
          /\ field_state.bytes_remaining >= SizeOf(field_state.base)
          /\ field_state.bytes_remaining <= field_descriptor.r[2]

----------------------------------------------------------------------------
(* C31: the first-pass definition loop.  Definition::advance on a body    *)
(* whose field count is n returns RecordHeader when n = 0 and otherwise    *)
(* DefinitionField, which is advanced exactly n times, three bytes each,   *)
(* before RecordHeader is returned: a DefinitionField token in hand after  *)
(* k calls has fields_remaining = n - k with k < n, and the pass has taken *)
(* 5 + 3 * k bytes.  Every DefinitionField and DefinitionFieldAlt token    *)
(* reached has fields_remaining >= 1, and no advance of one stops on       *)
(* fields_remaining - 1.                                                   *)

FieldCount == pass_stream[5]

C31_FirstPassLoop ==
    pass_stream # <<>> =>
        /\ (pass_pc = "first" /\ pass_state.kind = "DefinitionField") =>
              /\ FieldCount # 0
              /\ pass_count < FieldCount
              /\ pass_state.fields_remaining = FieldCount - pass_count
              /\ pass_cursor = 5 + 3 * pass_count
        /\ (pass_pc = "first" /\ pass_state.kind = "RecordHeader") =>
              /\ pass_count = FieldCount
              /\ pass_cursor = 5 + 3 * FieldCount
        /\ pass_first # <<>> =>
              pass_first = [cursor |-> 5 + 3 * FieldCount,
                            count |-> FieldCount]
        /\ pass_state.kind \in {"DefinitionField", "DefinitionFieldAlt"} =>
              pass_state.fields_remaining >= 1
        /\ ~(/\ pass_result = SubtractOverflow
             /\ pass_state.kind \in {"DefinitionField", "DefinitionFieldAlt"})

\* A body of two fields has been gone over by two calls of
\* DefinitionField::advance, and one without fields by none.
C31_Witness ==
    /\ pass_pc = "second"
    /\ pass_state.kind = "DefinitionAlt"
    /\ FieldCount = 2
    /\ pass_first = [cursor |-> 11, count |-> 2]

----------------------------------------------------------------------------
(* C32: the two passes agree.  The second pass (DefinitionAlt, then        *)
(* DefinitionFieldAlt and Field in turn) never takes a byte beyond the     *)
(* body the first pass went over: its cursor is 5 + 3 * k after k field    *)
(* descriptors, with k at most the field count.  When it has returned      *)
(* RecordHeader it has taken 5 + 3 * field_count bytes of the definition   *)
(* and as many field descriptors as the first pass; and on a body whose    *)
(* descriptors are regular it does not stop before that.                   *)

PassDescriptor(m) == SubSeq(pass_stream, 3 + 3 * m, 5 + 3 * m)

PassIsRegular ==
    \A m \in 1..FieldCount :
        /\ PassDescriptor(m)[3] \in BaseTypeCodes
        /\ PassDescriptor(m)[2] > 0
        /\ PassDescriptor(m)[2] % WidthOfCode(PassDescriptor(m)[3]) = 0

C32_TwoPassAgreement ==
    pass_first # <<>> =>
        /\ pass_result # ReadPast
        /\ pass_cursor <= pass_first.cursor
        /\ pass_count <= pass_first.count
        /\ pass_cursor = IF pass_state.kind = "DefinitionAlt" THEN 0
                         ELSE 5 + 3 * pass_count
        /\ pass_pc = "done" =>
              /\ pass_state = RecordHeaderToken
              /\ pass_cursor = 5 + 3 * FieldCount
              /\ pass_cursor = pass_first.cursor
              /\ pass_count = pass_first.count
        /\ PassIsRegular => pass_pc # "stopped"

\* A body of two fields, an array of two u16 and a string of two bytes,
\* has been gone over twice, with four elements read in between.
C32_Witness ==
    /\ pass_pc = "done"
    /\ pass_first = [cursor |-> 11, count |-> 2]
    /\ pass_cursor = 11
    /\ pass_count = 2
    /\ Len(pass_out.values) = 4

----------------------------------------------------------------------------
(* C38: the architecture byte.  DefinitionAlt::advance takes the           *)
(* architecture byte 0 for little-endian and every other one, not 1        *)
(* alone, for big-endian: the global message number it returns is read     *)
(* from the two bytes of the body in that order, every token of the data   *)
(* record carries that order, and every element is read in it.  The first  *)
(* pass reaches RecordHeader whatever the byte is.                         *)

Architecture == pass_stream[2]

C38_ArchitectureByte ==
    pass_stream # <<>> =>
        /\ pass_pc = "stopped" => pass_first # <<>>
        /\ pass_out # <<>> =>
              /\ pass_out.global =
                    IF Architecture = 0
                    THEN pass_stream[3] + 256 * pass_stream[4]
                    ELSE 256 * pass_stream[3] + pass_stream[4]
              /\ \A k \in 1..Len(pass_out.values) :
                    pass_out.values[k].value =
                        Some(IF Architecture = 0
                             THEN Reverse(pass_out.values[k].r)
                             ELSE pass_out.values[k].r)
        /\ pass_state.kind \in {"DefinitionFieldAlt", "Field"} =>
              pass_state.is_little_endian = (Architecture = 0)

\* The architecture byte 2: the global message number 276 and two u16
\* have been read most significant byte first.
C38_Witness ==
    /\ pass_pc = "done"
    /\ Architecture = 2
    /\ pass_out.global = 276
    /\ Len(pass_out.values) = 2
    /\ pass_out.values[1].base = "U16"
    /\ pass_out.values[1].r = <<17, 18>>
    /\ pass_out.values[1].value = Some(<<17, 18>>)

----------------------------------------------------------------------------
(* C33: the bound of the record section, as stated.  With end the header   *)
(* length plus the declared data size, no byte at an offset of end or      *)
(* more is taken as record header, definition or field data: the data      *)
(* cursor i never passes end, and when the record loop is left i = end.    *)
(* In the slice driver i is advanced before the bytes are looked for, so   *)
(* there the statement is read where decode returned Ok.                   *)
C33_RecordSectionBound ==
    /\ (slice_pc = "done" /\ slice_result = Ok) => slice_i = slice_end
    /\ (reader_pc \in {"loop", "done"} /\ reader_end # 0) =>
          reader_i <= reader_end
    /\ (reader_pc = "done"
        /\ reader_result[1] \in {"Ok", "CyclicRedundancyCheck"}) =>
          reader_i = reader_end

----------------------------------------------------------------------------
(* C34: termination.  The record loops have a variant.  While decode_slice *)
(* is in its loop the data cursor i is short of end, which lies within the *)
(* slice, and a turn of the loop that is followed by another has advanced  *)
(* i by at least one byte; while decode_reader is in its loop the bytes    *)
(* taken are within the stream, and a turn followed by another has taken   *)
(* at least one byte and advanced i by as many.  No turn moves a cursor    *)
(* back.  So neither loop takes more turns than the input has bytes.       *)
C34_Termination ==
    /\ [](/\ slice_pc = "loop" =>
                slice_i < slice_end /\ slice_end + 2 = Len(input)
          /\ reader_pc = "loop" => reader_pos <= Len(input))
    /\ [][/\ (slice_pc = "loop" /\ slice_pc' = "loop")
                => slice_i' > slice_i
          /\ slice_pc = "loop" => slice_i' >= slice_i
          /\ (reader_pc = "loop" /\ reader_pc' = "loop")
                => /\ reader_pos' > reader_pos
                   /\ reader_i' - reader_i = reader_pos' - reader_pos
          /\ reader_pc = "loop" => reader_pos' >= reader_pos]_vars

\* In a build without overflow checks, both decoders have returned from a
\* field of three bytes of a two-byte type, which is never drained: the
\* slice driver at the end of the slice, the reader at the end of the
\* stream.
C34_Witness ==
    /\ Done
    /\ ~overflow_checks
    /\ shape \in SizeShapes
    /\ shape.recs[1].fields[1].size = 3
    /\ slice_result = <<"EndOfSlice">>
    /\ reader_result = <<"Io">>

----------------------------------------------------------------------------
(* C35: the range of the local index.  For a normal header the index that  *)
(* RecordHeader::advance returns is the low four bits of the byte, bit 4   *)
(* being ignored; for a compressed header it is bits 5 and 6, at most 3.   *)
(* So no access of the drivers to their table of 16 slots is out of        *)
(* bounds, and a data record, compressed or not, finds in its slot the     *)
(* definition last noted with the same index, whichever kind of header it  *)
(* carries.                                                                *)
LocalOf(b) == IF b >= 128 THEN (b \div 32) % 4 ELSE b % 16

C35_LocalIndexRange ==
    /\ header_pc # "panic"
    /\ \A n \in 1..Len(header_found) :
          LET b == header_bytes[n]
              f == header_found[n]
          IN  f[1] \in {"noted", "found"} =>
                /\ f[2] = LocalOf(b)
                /\ f[2] \in Slots
                /\ b >= 128 => f[2] \in 0..3
                /\ b < 128 => f[2] = LocalOf(((b + 16) % 32) + 32 * (b \div 32))
    /\ (Len(header_found) = 2 /\ header_found[1][1] = "noted"
        /\ header_found[2][1] = "found") =>
          header_found[2][3] =
             IF LocalOf(header_bytes[2]) = LocalOf(header_bytes[1])
             THEN header_bytes[1] ELSE 0

\* The definition header 0x53 (bit 4 set, index 3) has been noted, and the
\* compressed header 0xE5 (index 3, offset 5) has found it.
C35_Witness ==
    /\ header_pc = "done"
    /\ header_bytes = <<83, 229>>
    /\ header_found = <<<<"noted", 3>>, <<"found", 3, 83>>>>

----------------------------------------------------------------------------
(* C36: string and byte-z arrays are filtered an element at a time.  In a  *)
(* valid document of one definition and one data record of it, accepted by *)
(* the receiver, the add_u8 calls either driver makes with the number of a *)
(* field of base type 0x07 or 0x0A carry exactly the bytes of that field   *)
(* on the wire that are not 0, in stream order: a zero byte is passed      *)
(* over, and the bytes after it are still dispatched.                      *)

\* The offset in the input of field m of the data record, and its bytes.
StringFieldStart(m) ==
    shape.header_size + Len(EncodeRecord(shape.recs, 1)) + 1
    + Len(Flatten([k \in 1..(m - 1) |->
                     [x \in 1..shape.recs[1].fields[k].size |-> 0]]))

StringFieldBytes(m) ==
    SubSeq(input, StringFieldStart(m) + 1,
           StringFieldStart(m) + shape.recs[1].fields[m].size)

NonZero(bytes) == SelectSeq(bytes, LAMBDA b : b # 0)

OneDefinitionOneRecord ==
    /\ Done
    /\ ValidDocument(shape)
    /\ Len(shape.recs) = 2
    /\ shape.recs[1].t = "def"
    /\ shape.recs[2].t = "data"
    /\ shape.recs[2].local = shape.recs[1].local
    /\ shape.recs[1].global \notin rejected

C36_StringsFilteredPerElement ==
    OneDefinitionOneRecord =>
        \A m \in 1..Len(shape.recs[1].fields) :
            shape.recs[1].fields[m].base \in {7, 10} =>
                \A calls \in {slice_calls, reader_calls} :
                    SelectSeq(calls,
                              LAMBDA c : c[1] = "add_u8"
                                  /\ c[2] = shape.recs[1].fields[m].num)
                    = [k \in 1..Len(NonZero(StringFieldBytes(m))) |->
                         <<"add_u8", shape.recs[1].fields[m].num,
                           <<NonZero(StringFieldBytes(m))[k]>>>>]

\* A string of three bytes 00 00 51 after four bytes of another field: the
\* byte after the two zeros is the one call made for the string.
C36_Witness ==
    /\ OneDefinitionOneRecord
    /\ shape.recs[1] = DefB
    /\ StringFieldBytes(2) = <<0, 0, 81>>
    /\ SelectSeq(slice_calls, LAMBDA c : c[2] = 5) = <<<<"add_u8", 5, <<81>>>>>>
    /\ SelectSeq(reader_calls, LAMBDA c : c[2] = 5) = <<<<"add_u8", 5, <<81>>>>>>

----------------------------------------------------------------------------
(* C37: the check does not depend on how the bytes are cut into chunks.    *)
(* For every starting value and every slice cut in two at any place,       *)
(* compute_crc of the whole equals compute_crc of the second part started  *)
(* from compute_crc of the first; and so for a cut in three (both looked   *)
(* at when the fold is about to start).  At every turn of the fold the     *)
(* accumulator is compute_crc of the bytes folded so far, and folding the  *)
(* rest from it gives compute_crc of the whole.                            *)
Part(r, a, b) == SubSeq(r, a + 1, b)

C37_CrcChunking ==
    /\ fold_k = 1 => \A k \in 0..Len(fold_r) :
          compute_crc(fold_init, fold_r)
          = compute_crc(compute_crc(fold_init, Part(fold_r, 0, k)),
                        Part(fold_r, k, Len(fold_r)))
    /\ fold_k = 1 => \A k \in 0..Len(fold_r) : \A l \in k..Len(fold_r) :
          compute_crc(fold_init, fold_r)
          = compute_crc(
                compute_crc(compute_crc(fold_init, Part(fold_r, 0, k)),
                            Part(fold_r, k, l)),
                Part(fold_r, l, Len(fold_r)))
    /\ fold_k \in 1..(Len(fold_r) + 1) =>
          /\ fold_acc = compute_crc(fold_init, Part(fold_r, 0, fold_k - 1))
          /\ compute_crc(fold_acc, Part(fold_r, fold_k - 1, Len(fold_r)))
             = compute_crc(fold_init, fold_r)

\* Two bytes of the signature have been folded from 0x92DE and two are
\* left: the value differs from the start and from the whole.
C37_Witness ==
    /\ fold_init = 37598
    /\ fold_r = FitSignature
    /\ fold_k = 3
    /\ fold_acc = compute_crc(37598, <<46, 70>>)
    /\ fold_acc # fold_init
    /\ fold_acc # compute_crc(fold_init, fold_r)
    /\ compute_crc(fold_acc, <<73, 84>>) = compute_crc(fold_init, fold_r)

===========================================================================
